---------------------------- MODULE Spec2Model ----------------------------
(***************************************************************************)
(* A model of the scan pipeline of VX_Rec0n (backend/app/api/jobs.py):     *)
(* the job record and its background worker _run_nikto_scan, the output    *)
(* parser and severity classifier, the verification probe, the            *)
(* header/cookie audit and the same-origin crawler.                       *)
(*                                                                         *)
(* Strings are sequences of one-character strings, so that lower(),        *)
(* strip(), startswith(), endswith(), "in" and the regular expressions of  *)
(* the source are computed character by character.  None is the empty      *)
(* sequence for a string and NoStatus for a status code.                   *)
(***************************************************************************)
EXTENDS Integers, Sequences, FiniteSets, TLC

-----------------------------------------------------------------------------
(* Python string primitives *)

LowerChar(c) ==
  CASE c = "A" -> "a" [] c = "B" -> "b" [] c = "C" -> "c" [] c = "D" -> "d"
    [] c = "E" -> "e" [] c = "F" -> "f" [] c = "G" -> "g" [] c = "H" -> "h"
    [] c = "I" -> "i" [] c = "J" -> "j" [] c = "K" -> "k" [] c = "L" -> "l"
    [] c = "M" -> "m" [] c = "N" -> "n" [] c = "O" -> "o" [] c = "P" -> "p"
    [] c = "Q" -> "q" [] c = "R" -> "r" [] c = "S" -> "s" [] c = "T" -> "t"
    [] c = "U" -> "u" [] c = "V" -> "v" [] c = "W" -> "w" [] c = "X" -> "x"
    [] c = "Y" -> "y" [] c = "Z" -> "z" [] OTHER -> c

\* str.lower()
Lower(s) == [i \in 1..Len(s) |-> LowerChar(s[i])]

\* str.startswith(p)
StartsWith(s, p) == Len(p) <= Len(s) /\ SubSeq(s, 1, Len(p)) = p

\* str.endswith(p)
EndsWith(s, p) == Len(p) <= Len(s) /\ SubSeq(s, Len(s) - Len(p) + 1, Len(s)) = p

\* p in s
Contains(s, p) == \E i \in 1..(Len(s) - Len(p) + 1) : SubSeq(s, i, i + Len(p) - 1) = p

\* the characters str.strip() and the regular expressions' \s remove
Whitespace == {" ", "\t", "\n", "\r"}

RECURSIVE LStrip(_)
LStrip(s) == IF s # <<>> /\ Head(s) \in Whitespace THEN LStrip(Tail(s)) ELSE s

RECURSIVE RStrip(_)
RStrip(s) ==
  IF s # <<>> /\ s[Len(s)] \in Whitespace THEN RStrip(SubSeq(s, 1, Len(s) - 1)) ELSE s

\* str.strip()
Strip(s) == RStrip(LStrip(s))

\* the suffix s[n:]
DropFirst(s, n) == SubSeq(s, n + 1, Len(s))

\* the empty sequence stands for None where the source has Optional[str]
None == <<>>

\* status_code: Optional[int] = None
NoStatus == 0

\* dict merge {**a, **b}
Merge(a, b) == [k \in (DOMAIN a) \cup (DOMAIN b) |-> IF k \in DOMAIN b THEN b[k] ELSE a[k]]

-----------------------------------------------------------------------------
(* Output parser and severity classifier *)

\* the alternatives of F_IGNORE, lowercased as re.I compares them
F_IGNORE_PREFIXES ==
  { <<"n","i","k","t","o"," ","v">>, <<"s","t","a","r","t"," ","t","i","m","e">>, <<"e","n","d"," ","t","i","m","e">>,
    <<"t","a","r","g","e","t"," ","i","p">>, <<"t","a","r","g","e","t"," ","h","o","s","t","n","a","m","e">>, <<"t","a","r","g","e","t"," ","p","o","r","t">>,
    <<"n","o"," ","c","g","i"," ","d","i","r","e","c","t","o","r","i","e","s">>, <<"s","e","r","v","e","r",":">>, <<"r","e","t","r","i","e","v","e","d">>, <<"u","n","c","o","m","m","o","n"," ","h","e","a","d","e","r">> }

\* F_IGNORE.search(s): ^\s*\+\s*(alternatives), case-insensitive
F_IGNORE(s) ==
  LET t == LStrip(s) IN
    /\ t # <<>> /\ Head(t) = "+"
    /\ \E p \in F_IGNORE_PREFIXES : StartsWith(Lower(LStrip(Tail(t))), p)

HIGH_KEYWORDS ==
  { <<"r","e","m","o","t","e"," ","c","o","d","e">>, <<"r","c","e">>, <<"s","q","l"," ","i","n","j","e","c","t","i","o","n">>, <<"s","q","l","i">>, <<"x","s","s">>,
    <<"a","u","t","h","e","n","t","i","c","a","t","i","o","n"," ","b","y","p","a","s","s">> }

MEDIUM_KEYWORDS ==
  { <<"d","i","r","e","c","t","o","r","y"," ","i","n","d","e","x","i","n","g">>, <<"d","i","r","e","c","t","o","r","y"," ","l","i","s","t","i","n","g">>, <<"m","i","s","c","o","n","f","i","g","u","r","a","t","i","o","n">>, <<"i","n","s","e","c","u","r","e">> }

\* the tiers with the test of line 116 before the test of line 114
_classify_severity_LowFirst(text) ==
  LET t == Lower(text) IN
    IF \E k \in HIGH_KEYWORDS : Contains(t, k) THEN "high"
    ELSE IF Contains(t, <<"h","e","a","d","e","r">>) \/ Contains(t, <<"i","n","f","o">>) THEN "low"
    ELSE "medium"

_classify_severity(text) ==
  LET t == Lower(text) IN
    IF \E k \in HIGH_KEYWORDS : Contains(t, k) THEN "high"
    ELSE IF \E k \in MEDIUM_KEYWORDS : Contains(t, k) THEN "medium"
    ELSE IF Contains(t, <<"h","e","a","d","e","r">>) \/ Contains(t, <<"i","n","f","o">>) THEN "low"
    ELSE "medium"

OWASP_TAGS == << "A05:2021-Security Misconfiguration" >>

\* the dict appended at lines 134-141
RawFinding(title) ==
  [ category |-> "nikto",
    title |-> title,
    severity |-> _classify_severity(title),
    evidence_json |-> [tool |-> "nikto", raw |-> title],
    owasp_tags |-> OWASP_TAGS,
    confidence |-> "medium" ]

\* lines 129-141 without the test of line 131: every title is kept
ParseTitle_NoDedupe(st, title) ==
  [ findings |-> Append(st.findings, RawFinding(title)),
    seen |-> st.seen \cup {Lower(title)} ]

\* lines 129-141 for the stripped advisory line s
ParseTitle(st, title) ==
  IF Lower(title) \in st.seen THEN st
  ELSE [ findings |-> Append(st.findings, RawFinding(title)),
         seen |-> st.seen \cup {Lower(title)} ]

ParseStripped(st, s) ==
  IF ~StartsWith(s, <<"+"," ">>) THEN st
  ELSE IF F_IGNORE(s) THEN st
  ELSE ParseTitle(st, Strip(DropFirst(s, 2)))

\* one iteration of the loop of _parse_nikto_findings on the line raw;
\* st = [findings, seen]
ParseLine(st, raw) == ParseStripped(st, Strip(raw))

RECURSIVE ParseLoop(_, _)
ParseLoop(st, lines) ==
  IF lines = <<>> THEN st ELSE ParseLoop(ParseLine(st, Head(lines)), Tail(lines))

_parse_nikto_findings(lines) ==
  ParseLoop([findings |-> <<>>, seen |-> {}], lines).findings

-----------------------------------------------------------------------------
(* urllib.parse, for URLs without userinfo, IPv6 literals and ;parameters *)

Letters ==
  { "a","b","c","d","e","f","g","h","i","j","k","l","m","n","o","p","q","r","s","t",
    "u","v","w","x","y","z",
    "A","B","C","D","E","F","G","H","I","J","K","L","M","N","O","P","Q","R","S","T",
    "U","V","W","X","Y","Z" }

Digits == { "0","1","2","3","4","5","6","7","8","9" }

\* scheme_chars of urllib.parse
SchemeChars == Letters \cup Digits \cup { "+", "-", "." }

\* the longest prefix of s made of characters of cs
RECURSIVE TakeWhile(_, _)
TakeWhile(s, cs) ==
  IF s # <<>> /\ Head(s) \in cs THEN <<Head(s)>> \o TakeWhile(Tail(s), cs) ELSE <<>>

\* the prefix of s before its first character of cs (all of s if there is none)
RECURSIVE TakeUntil(_, _)
TakeUntil(s, cs) ==
  IF s # <<>> /\ Head(s) \notin cs THEN <<Head(s)>> \o TakeUntil(Tail(s), cs) ELSE <<>>

\* what follows the first character of cs in s (empty if there is none)
AfterFirst(s, cs) == DropFirst(s, Len(TakeUntil(s, cs)) + 1)

HasAny(s, cs) == \E i \in 1..Len(s) : s[i] \in cs

DigitValue(c) ==
  CASE c = "0" -> 0 [] c = "1" -> 1 [] c = "2" -> 2 [] c = "3" -> 3 [] c = "4" -> 4
    [] c = "5" -> 5 [] c = "6" -> 6 [] c = "7" -> 7 [] c = "8" -> 8 [] c = "9" -> 9

\* int(digits)
RECURSIVE ToInt(_)
ToInt(ds) == IF ds = <<>> THEN 0 ELSE 10 * ToInt(SubSeq(ds, 1, Len(ds) - 1)) + DigitValue(ds[Len(ds)])

\* str.split(c)
RECURSIVE Split(_, _)
Split(s, c) ==
  IF ~HasAny(s, {c}) THEN <<s>> ELSE <<TakeUntil(s, {c})>> \o Split(AfterFirst(s, {c}), c)

\* c.join(parts)
RECURSIVE Join(_, _)
Join(parts, c) ==
  IF parts = <<>> THEN <<>>
  ELSE IF Len(parts) = 1 THEN Head(parts)
  ELSE Head(parts) \o <<c>> \o Join(Tail(parts), c)

\* the path, query and fragment of what follows the netloc
SplitTail(scheme, netloc, rest) ==
  [ scheme |-> scheme, netloc |-> netloc,
    path |-> TakeUntil(rest, {"?", "#"}),
    query |-> AfterFirst(TakeUntil(rest, {"#"}), {"?"}),
    fragment |-> AfterFirst(rest, {"#"}) ]

\* the netloc, when // follows the scheme
SplitNetloc(scheme, rest) ==
  IF StartsWith(rest, <<"/","/">>)
    THEN SplitTail(scheme, TakeUntil(DropFirst(rest, 2), {"/", "?", "#"}),
                   DropFirst(rest, 2 + Len(TakeUntil(DropFirst(rest, 2), {"/", "?", "#"}))))
    ELSE SplitTail(scheme, <<>>, rest)

\* the scheme, when what precedes the first colon is one: pre = url[:i]
SplitScheme(url, default, pre) ==
  IF /\ HasAny(url, {":"}) /\ pre # <<>> /\ Head(pre) \in Letters
     /\ \A i \in 1..Len(pre) : pre[i] \in SchemeChars
    THEN SplitNetloc(Lower(pre), DropFirst(url, Len(pre) + 1))
    ELSE SplitNetloc(default, url)

\* urlsplit(url, scheme=default): [scheme, netloc, path, query, fragment]
urlparse2(url, default) == SplitScheme(url, default, TakeUntil(url, {":"}))

urlparse(url) == urlparse2(url, <<>>)

\* ParseResult.hostname: the lowercased host of the netloc, None if empty
Hostname(p) == Lower(TakeUntil(p.netloc, {":"}))

\* ParseResult.port raises ValueError for a port that is no number in 0..65535
PortRaises(p) ==
  LET port == AfterFirst(p.netloc, {":"}) IN
    port # <<>> /\ ((\E i \in 1..Len(port) : port[i] \notin Digits) \/ ToInt(port) > 65535)

\* ParseResult.port, 0 standing for None (both are false to `or`)
Port(p) == ToInt(AfterFirst(p.netloc, {":"}))

\* urlunparse((scheme, netloc, path, "", query, fragment)) for the schemes
\* that use a netloc
UnparseNetloc(p) ==
  IF p.netloc # <<>> \/ p.scheme \in {<<"h","t","t","p">>, <<"h","t","t","p","s">>}
    THEN <<"/","/">> \o p.netloc
         \o (IF p.path # <<>> /\ Head(p.path) # "/" THEN <<"/">> ELSE <<>>)
         \o p.path
    ELSE p.path

urlunparse(p) ==
  (IF p.scheme # <<>> THEN p.scheme \o <<":">> ELSE <<>>)
  \o UnparseNetloc(p)
  \o (IF p.query # <<>> THEN <<"?">> \o p.query ELSE <<>>)
  \o (IF p.fragment # <<>> THEN <<"#">> \o p.fragment ELSE <<>>)

\* the dot-segment pass of urljoin over the segments segs, from left to right
RECURSIVE ResolveDots(_, _)
ResolveDots(done, segs) ==
  IF segs = <<>> THEN done
  ELSE LET seg == Head(segs) IN
         IF seg = <<".",".">>
           THEN ResolveDots(IF done # <<>> THEN SubSeq(done, 1, Len(done) - 1) ELSE done,
                            Tail(segs))
         ELSE IF seg = <<".">> THEN ResolveDots(done, Tail(segs))
         ELSE ResolveDots(Append(done, seg), Tail(segs))

\* segments[1:-1] = filter(None, segments[1:-1])
DropEmptyInner(segs) ==
  IF Len(segs) <= 2 THEN segs
  ELSE <<Head(segs)>>
       \o SelectSeq(SubSeq(segs, 2, Len(segs) - 1), LAMBDA x : x # <<>>)
       \o <<segs[Len(segs)]>>

\* base_parts: the segments of the base path without the last, if it is no
\* directory
BaseParts(bparts) ==
  IF bparts[Len(bparts)] # <<>> THEN SubSeq(bparts, 1, Len(bparts) - 1) ELSE bparts

\* '/'.join(resolved_path) or '/'
JoinedPath(segments) ==
  Join(ResolveDots(<<>>, segments)
       \o (IF segments[Len(segments)] \in {<<".">>, <<".",".">>} THEN << <<>> >> ELSE <<>>),
       "/")

OrSlash(path) == IF path = <<>> THEN <<"/">> ELSE path

\* the path of the reference upath merged into the path of the base
MergedPath(bpath, upath) ==
  OrSlash(JoinedPath(DropEmptyInner(
    IF Head(upath) = "/" THEN Split(upath, "/")
    ELSE BaseParts(Split(bpath, "/")) \o Split(upath, "/"))))

\* urljoin for the parsed base b and the parsed reference u
JoinParsed(b, u, url) ==
  IF u.scheme # b.scheme \/ u.scheme \notin {<<"h","t","t","p">>, <<"h","t","t","p","s">>, <<>>} THEN url
  ELSE IF u.netloc # <<>> THEN urlunparse(u)
  ELSE IF u.path = <<>>
    THEN urlunparse([u EXCEPT !.netloc = b.netloc, !.path = b.path,
                              !.query = IF u.query = <<>> THEN b.query ELSE u.query])
  ELSE urlunparse([u EXCEPT !.netloc = b.netloc, !.path = MergedPath(b.path, u.path)])

JoinBase(b, url) == JoinParsed(b, urlparse2(url, b.scheme), url)

\* urljoin(base, url) for an http(s) base
urljoin(base, url) == IF url = <<>> THEN base ELSE JoinBase(urlparse(base), url)

\* str(n) for a natural number n
RECURSIVE ToStr(_)
ToStr(n) ==
  (IF n >= 10 THEN ToStr(n \div 10) ELSE <<>>)
  \o << << "0", "1", "2", "3", "4", "5", "6", "7", "8", "9" >>[(n % 10) + 1] >>

\* ParseResult.path: the path without the parameters of its last segment
PathOnly(path) ==
  LET last == Split(path, "/")[Len(Split(path, "/"))]
  IN  SubSeq(path, 1, Len(path) - Len(last)) \o TakeUntil(last, {";"})

LOOPBACK_HOSTS == { <<"l","o","c","a","l","h","o","s","t">>, <<"1","2","7",".","0",".","0",".","1">> }

DOCKER_HOST == <<"h","o","s","t",".","d","o","c","k","e","r",".","i","n","t","e","r","n","a","l">>

\* lines 54-60: the URL rebuilt from the parse result p
Rebuilt(p) ==
  p.scheme \o <<":","/","/">> \o DOCKER_HOST
  \o (IF Port(p) # 0 THEN <<":">> \o ToStr(Port(p)) ELSE <<>>)
  \o PathOnly(p.path)
  \o (IF p.query # <<>> THEN <<"?">> \o p.query ELSE <<>>)

\* lines 51-64 for the parse result p of url; p.port raising is caught at line 63
DockerSafe(p, url) ==
  IF Hostname(p) \in LOOPBACK_HOSTS /\ ~PortRaises(p) THEN Rebuilt(p) ELSE url

_docker_safe_target(url) == DockerSafe(urlparse(url), url)

\* a.port or (443 if a.scheme == "https" else 80)
EffectivePort(p) ==
  IF Port(p) # 0 THEN Port(p) ELSE IF p.scheme = <<"h","t","t","p","s">> THEN 443 ELSE 80

SameOrigin(a, b) ==
  IF PortRaises(a) \/ PortRaises(b) THEN FALSE
  ELSE <<a.scheme, Hostname(a), EffectivePort(a)>> = <<b.scheme, Hostname(b), EffectivePort(b)>>

_same_origin(u1, u2) == SameOrigin(urlparse(u1), urlparse(u2))

-----------------------------------------------------------------------------
(* Verification probe *)

SUSPECT_EXTS ==
  { <<".","p","e","m">>, <<".","j","k","s">>, <<".","p","1","2">>, <<".","p","f","x">>, <<".","c","r","t">>, <<".","c","e","r">>,
    <<".","w","a","r">>, <<".","j","a","r">>, <<".","e","a","r">>,
    <<".","t","a","r">>, <<".","t","a","r",".","g","z">>, <<".","t","g","z">>, <<".","t","a","r",".","b","z","2">>, <<".","t","b","z","2">>, <<".","z","i","p">>, <<".","g","z">>,
    <<".","b","z","2">>, <<".","l","z","m","a">>, <<".","a","l","z">>, <<".","e","g","g">> }

ALWAYS_SENSITIVE_PATHS == { <<"/",".","h","t","p","a","s","s","w","d">> }

\* the character class [\w\-./%~] of the path pattern
PathChars ==
  { "a","b","c","d","e","f","g","h","i","j","k","l","m","n","o","p","q","r","s","t",
    "u","v","w","x","y","z",
    "A","B","C","D","E","F","G","H","I","J","K","L","M","N","O","P","Q","R","S","T",
    "U","V","W","X","Y","Z",
    "0","1","2","3","4","5","6","7","8","9","_","-",".","/","%","~" }

\* re.search(r"(/[\w\-./%~]+)", title): the leftmost "/" that a path character
\* follows, with the longest run of path characters after it; None if there is none
_extract_path_from_title(title) ==
  LET starts == { i \in 1..(Len(title) - 1) : title[i] = "/" /\ title[i + 1] \in PathChars }
  IN  IF starts = {} THEN None
      ELSE LET i == CHOOSE k \in starts : \A m \in starts : k <= m
           IN  <<"/">> \o TakeWhile(DropFirst(title, i), PathChars)

bump_if_sensitive(sev, path) ==
  IF path = None THEN sev
  ELSE LET sensitive == \/ path \in ALWAYS_SENSITIVE_PATHS
                        \/ \E ext \in SUSPECT_EXTS : EndsWith(Lower(path), ext)
       IN  IF sensitive /\ sev # "high" THEN "high" ELSE sev

\* re.match(r"^https?://", base_url, re.I)
HasHttpScheme(u) ==
  \/ StartsWith(Lower(u), <<"h","t","t","p",":","/","/">>)
  \/ StartsWith(Lower(u), <<"h","t","t","p","s",":","/","/">>)

\* base = base_url if re.match(...) else f"http://{base_url}"
BaseOf(base_url) == IF HasHttpScheme(base_url) THEN base_url ELSE <<"h","t","t","p",":","/","/">> \o base_url

RECURSIVE LStripSlash(_)
LStripSlash(s) == IF s # <<>> /\ Head(s) = "/" THEN LStripSlash(Tail(s)) ELSE s

RECURSIVE RStripSlash(_)
RStripSlash(s) ==
  IF s # <<>> /\ s[Len(s)] = "/" THEN RStripSlash(SubSeq(s, 1, Len(s) - 1)) ELSE s

\* url = urljoin(base.rstrip("/") + "/", path.lstrip("/"))
ProbeUrl(base, path) == urljoin(RStripSlash(base) \o <<"/">>, LStripSlash(path))

\* dict.get(key, default)
Get(d, k, default) == IF k \in DOMAIN d THEN d[k] ELSE default

\* The network as the probe sees it: net.head[url] and net.get[url] are the
\* outcome of a HEAD and of a GET, [raised, err, status, content_length]; raised
\* is a transport error (the request raised an exception e, err being str(e)),
\* and a URL outside the domain is one.
TransportError ==
  [raised |-> TRUE, err |-> <<"c","o","n","n","e","c","t"," ","e","r","r","o","r">>, status |-> NoStatus, content_length |-> None]

Request(net, method, url) ==
  IF url \in DOMAIN net[method] THEN net[method][url] ELSE TransportError

\* lines 204-213 with the GET made after a 405 only
ProbeAnswered_GetAfter405Only(h, g, url) ==
  IF h.raised
    THEN [ status_code |-> NoStatus, content_len |-> None, verified_flag |-> FALSE,
           err |-> h.err, requests |-> << <<"HEAD", url>> >> ]
  ELSE IF h.status = 405
    THEN IF g.raised
           THEN [ status_code |-> h.status, content_len |-> None,
                  verified_flag |-> FALSE, err |-> g.err,
                  requests |-> << <<"HEAD", url>>, <<"GET", url>> >> ]
           ELSE [ status_code |-> g.status, content_len |-> g.content_length,
                  verified_flag |-> g.status \in {200, 401, 403}, err |-> None,
                  requests |-> << <<"HEAD", url>>, <<"GET", url>> >> ]
  ELSE [ status_code |-> h.status, content_len |-> h.content_length,
         verified_flag |-> h.status \in {200, 401, 403}, err |-> None,
         requests |-> << <<"HEAD", url>> >> ]

\* lines 204-213: HEAD, then GET when the HEAD status is 405 or 501, h and g
\* being what the network answers to each;
\* [status_code, content_len, verified_flag, err, requests]
ProbeAnswered(h, g, url) ==
  IF h.raised
    THEN [ status_code |-> NoStatus, content_len |-> None, verified_flag |-> FALSE,
           err |-> h.err, requests |-> << <<"HEAD", url>> >> ]
  ELSE IF h.status \in {405, 501}
    THEN IF g.raised
           THEN [ status_code |-> h.status, content_len |-> None,
                  verified_flag |-> FALSE, err |-> g.err,
                  requests |-> << <<"HEAD", url>>, <<"GET", url>> >> ]
           ELSE [ status_code |-> g.status, content_len |-> g.content_length,
                  verified_flag |-> g.status \in {200, 401, 403}, err |-> None,
                  requests |-> << <<"HEAD", url>>, <<"GET", url>> >> ]
  ELSE [ status_code |-> h.status, content_len |-> h.content_length,
         verified_flag |-> h.status \in {200, 401, 403}, err |-> None,
         requests |-> << <<"HEAD", url>> >> ]

Probe(net, url) == ProbeAnswered(Request(net, "head", url), Request(net, "get", url), url)

\* lines 183-196: the entry of a finding without a path
Skipped(f) ==
  Merge(f, [ severity |-> bump_if_sensitive(Get(f, "severity", "medium"), None),
             evidence_json |-> Merge(Get(f, "evidence_json", <<>>),
               [ verified |-> FALSE, path |-> None, status |-> NoStatus,
                 content_length |-> None,
                 note |-> "no path extracted; verification skipped" ]) ])

\* lines 226-237: the entry of a finding whose path was probed with the result r
Probed(f, path, r) ==
  Merge(f, [ severity |-> bump_if_sensitive(Get(f, "severity", "medium"), path),
             evidence_json |-> Merge(Get(f, "evidence_json", <<>>),
               Merge([ verified |-> r.verified_flag, path |-> path,
                       status |-> r.status_code, content_length |-> r.content_len ],
                     IF r.err # None THEN [error |-> r.err] ELSE <<>>)) ])

\* lines 218-237 without the test of line 222: nothing is dropped
AfterProbe_KeepsAll(st, f, path, r) ==
  [ st EXCEPT
      !.requests = @ \o r.requests,
      !.out = Append(@, Probed(f, path, r)),
      !.seen_verified_paths = IF r.verified_flag THEN @ \cup {path} ELSE @ ]

\* lines 218-237: a verified finding of a path seen verified before is dropped
AfterProbe(st, f, path, r) ==
  IF r.verified_flag /\ path \in st.seen_verified_paths
    THEN [st EXCEPT !.requests = @ \o r.requests]
    ELSE [ st EXCEPT
             !.requests = @ \o r.requests,
             !.out = Append(@, Probed(f, path, r)),
             !.seen_verified_paths = IF r.verified_flag THEN @ \cup {path} ELSE @ ]

VerifyPath(st, f, base, net, path) ==
  IF path = None THEN [st EXCEPT !.out = Append(@, Skipped(f))]
  ELSE AfterProbe(st, f, path, Probe(net, ProbeUrl(base, path)))

\* one iteration of the loop of lines 180-237 on the finding f;
\* st = [out, seen_verified_paths, requests]
VerifyOne(st, f, base, net) ==
  VerifyPath(st, f, base, net, _extract_path_from_title(f.title))

RECURSIVE VerifyLoop(_, _, _, _)
VerifyLoop(st, findings, base, net) ==
  IF findings = <<>> THEN st
  ELSE VerifyLoop(VerifyOne(st, Head(findings), base, net), Tail(findings), base, net)

\* lines 239 and 241 returning an empty list
Unverified_Nothing(findings) == <<>>

\* the list both return statements of lines 239 and 241 build
Unverified(findings) ==
  [ i \in 1..Len(findings) |->
      Merge(findings[i],
            [evidence_json |-> Merge(Get(findings[i], "evidence_json", <<>>),
                                     [verified |-> FALSE])]) ]

\* line 241: return out or [...]
OrUnverified(st, findings) ==
  [ out |-> IF st.out # <<>> THEN st.out ELSE Unverified(findings),
    requests |-> st.requests ]

\* the run of _verify_nikto_findings: client_ok is whether httpx.Client(...)
\* could be constructed; [out, requests]
VerifyRun(base_url, findings, net, client_ok) ==
  IF ~client_ok THEN [out |-> Unverified(findings), requests |-> <<>>]
  ELSE OrUnverified(VerifyLoop([out |-> <<>>, seen_verified_paths |-> {}, requests |-> <<>>],
                               findings, BaseOf(base_url), net),
                    findings)

_verify_nikto_findings(base_url, findings, net, client_ok) ==
  VerifyRun(base_url, findings, net, client_ok).out

-----------------------------------------------------------------------------
(* Header and cookie audit *)

\* h = {k.lower(): v ...}: the lowercased names of the response headers, each
\* header a pair <<name, value>>
HeaderNames(headers) == { Lower(headers[i][1]) : i \in 1..Len(headers) }

\* r.headers.get_list("set-cookie"): the values of the Set-Cookie headers, in order
RECURSIVE SetCookies(_)
SetCookies(headers) ==
  IF headers = <<>> THEN <<>>
  ELSE (IF Lower(Head(headers)[1]) = <<"s","e","t","-","c","o","o","k","i","e">> THEN <<Head(headers)[2]>> ELSE <<>>)
       \o SetCookies(Tail(headers))

\* raw_ck.split("=", 1)[0]
BeforeEquals(s) == TakeUntil(s, {"="})

\* ', '.join(missing)
RECURSIVE JoinComma(_)
JoinComma(words) ==
  IF words = <<>> THEN <<>>
  ELSE IF Len(words) = 1 THEN Head(words)
  ELSE Head(words) \o <<","," ">> \o JoinComma(Tail(words))

\* add(title, severity): lines 260-268
HeaderFinding(title, severity, status) ==
  [ category |-> "headers",
    title |-> title,
    severity |-> severity,
    evidence_json |-> [verified |-> TRUE, status |-> status, path |-> <<"/">>],
    owasp_tags |-> OWASP_TAGS,
    confidence |-> "medium" ]

\* lines 270-279: the findings for the absent headers
MissingHeaders(base, h, status) ==
  (IF StartsWith(Lower(base), <<"h","t","t","p","s",":","/","/">>) /\ <<"s","t","r","i","c","t","-","t","r","a","n","s","p","o","r","t","-","s","e","c","u","r","i","t","y">> \notin h
     THEN << HeaderFinding(<<"M","i","s","s","i","n","g"," ","S","t","r","i","c","t","-","T","r","a","n","s","p","o","r","t","-","S","e","c","u","r","i","t","y"," ","(","H","S","T","S",")"," ","h","e","a","d","e","r">>, "medium", status) >>
     ELSE <<>>)
  \o (IF <<"x","-","c","o","n","t","e","n","t","-","t","y","p","e","-","o","p","t","i","o","n","s">> \notin h
     THEN << HeaderFinding(<<"M","i","s","s","i","n","g"," ","X","-","C","o","n","t","e","n","t","-","T","y","p","e","-","O","p","t","i","o","n","s",":"," ","n","o","s","n","i","f","f">>, "low", status) >>
     ELSE <<>>)
  \o (IF <<"c","o","n","t","e","n","t","-","s","e","c","u","r","i","t","y","-","p","o","l","i","c","y">> \notin h /\ <<"x","-","f","r","a","m","e","-","o","p","t","i","o","n","s">> \notin h
     THEN << HeaderFinding(<<"M","i","s","s","i","n","g"," ","C","S","P"," ","a","n","d"," ","X","-","F","r","a","m","e","-","O","p","t","i","o","n","s"," ","(","c","l","i","c","k","j","a","c","k","i","n","g"," ","e","x","p","o","s","u","r","e",")">>, "medium", status) >>
     ELSE <<>>)
  \o (IF <<"r","e","f","e","r","r","e","r","-","p","o","l","i","c","y">> \notin h
     THEN << HeaderFinding(<<"M","i","s","s","i","n","g"," ","R","e","f","e","r","r","e","r","-","P","o","l","i","c","y"," ","h","e","a","d","e","r">>, "low", status) >>
     ELSE <<>>)
  \o (IF <<"p","e","r","m","i","s","s","i","o","n","s","-","p","o","l","i","c","y">> \notin h /\ <<"f","e","a","t","u","r","e","-","p","o","l","i","c","y">> \notin h
     THEN << HeaderFinding(<<"M","i","s","s","i","n","g"," ","P","e","r","m","i","s","s","i","o","n","s","-","P","o","l","i","c","y"," ","h","e","a","d","e","r">>, "low", status) >>
     ELSE <<>>)

\* lines 290-298: the flags the cookie raw_ck lacks
MissingFlags(base, raw_ck) ==
  (IF ~Contains(Lower(raw_ck), <<"s","e","c","u","r","e">>) /\ StartsWith(Lower(base), <<"h","t","t","p","s",":","/","/">>)
     THEN << <<"S","e","c","u","r","e">> >> ELSE <<>>)
  \o (IF ~Contains(Lower(raw_ck), <<"h","t","t","p","o","n","l","y">>) THEN << <<"H","t","t","p","O","n","l","y">> >> ELSE <<>>)
  \o (IF ~Contains(Lower(raw_ck), <<"s","a","m","e","s","i","t","e">>) THEN << <<"S","a","m","e","S","i","t","e">> >> ELSE <<>>)

\* lines 299-307: the finding of the cookie raw_ck that lacks the flags missing
CookieFinding(raw_ck, missing, status) ==
  IF missing = <<>> THEN <<>>
  ELSE << [ category |-> "cookies",
            title |-> <<"C","o","o","k","i","e"," ","'">> \o Strip(BeforeEquals(raw_ck)) \o <<"'"," ","m","i","s","s","i","n","g"," ","f","l","a","g","s",":"," ">>
                      \o JoinComma(missing),
            severity |-> IF \E i \in 1..Len(missing) : Lower(missing[i]) = <<"s","e","c","u","r","e">>
                           THEN "medium" ELSE "low",
            evidence_json |-> [ verified |-> TRUE, status |-> status,
                                path |-> <<"/">>, cookie |-> raw_ck ],
            owasp_tags |-> OWASP_TAGS,
            confidence |-> "medium" ] >>

\* lines 289-307: the findings of the Set-Cookie headers
RECURSIVE CookieFindings(_, _, _)
CookieFindings(base, cookies, status) ==
  IF cookies = <<>> THEN <<>>
  ELSE CookieFinding(Head(cookies), MissingFlags(base, Head(cookies)), status)
       \o CookieFindings(base, Tail(cookies), status)

\* lines 309-317
AuditFailed(e) ==
  << [ category |-> "headers",
       title |-> <<"H","e","a","d","e","r"," ","a","u","d","i","t"," ","f","a","i","l","e","d",":"," ">> \o e,
       severity |-> "low",
       evidence_json |-> [verified |-> FALSE, error |-> e],
       owasp_tags |-> OWASP_TAGS,
       confidence |-> "low" ] >>

\* the run of _audit_security_headers: resp = [raised, err, status, headers] is the
\* outcome of the GET of the base URL; [out, requests]
AuditBase(base, resp, client_ok) ==
  IF ~client_ok THEN [out |-> AuditFailed(<<"c","l","i","e","n","t"," ","e","r","r","o","r">>), requests |-> <<>>]
  ELSE IF resp.raised
    THEN [out |-> AuditFailed(resp.err), requests |-> << <<"GET", base>> >>]
  ELSE [ out |-> MissingHeaders(base, HeaderNames(resp.headers), resp.status)
                 \o CookieFindings(base, SetCookies(resp.headers), resp.status),
         requests |-> << <<"GET", base>> >> ]

AuditRun(base_url, resp, client_ok) == AuditBase(BaseOf(base_url), resp, client_ok)

_audit_security_headers(base_url, resp, client_ok) == AuditRun(base_url, resp, client_ok).out

-----------------------------------------------------------------------------
(* Same-origin crawler *)

\* SCAN_MAX_PAGES, set by the environment to keep the page cap within reach
SCAN_MAX_PAGES == 3

\* SCAN_MAX_DEPTH
SCAN_MAX_DEPTH == 2

\* lines 396-398
LooksSensitive(pth) ==
  \/ pth \in ALWAYS_SENSITIVE_PATHS
  \/ \E ext \in SUSPECT_EXTS : EndsWith(Lower(pth), ext)

\* lines 417-438: the finding of a visited URL whose path looks sensitive
CrawlFinding(pth, r) ==
  IF r.status_code \in {200, 401, 403}
    THEN [ category |-> "crawler",
           title |-> <<"D","i","s","c","o","v","e","r","e","d"," ","s","e","n","s","i","t","i","v","e","-","l","o","o","k","i","n","g"," ","p","a","t","h",":"," ">> \o pth,
           severity |-> IF \E ext \in SUSPECT_EXTS : EndsWith(Lower(pth), ext)
                          THEN "high" ELSE "medium",
           evidence_json |-> [ verified |-> TRUE, path |-> pth, status |-> r.status_code,
                               content_length |-> r.content_len ],
           owasp_tags |-> OWASP_TAGS,
           confidence |-> "medium" ]
    ELSE [ category |-> "crawler",
           title |-> <<"P","o","t","e","n","t","i","a","l"," ","s","e","n","s","i","t","i","v","e"," ","p","a","t","h"," ","(","u","n","v","e","r","i","f","i","e","d",")",":"," ">> \o pth,
           severity |-> "medium",
           evidence_json |-> Merge([verified |-> FALSE, path |-> pth],
                                   IF r.err # None THEN [error |-> r.err] ELSE <<>>),
           owasp_tags |-> OWASP_TAGS,
           confidence |-> "low" ]

\* enqueue(target) of lines 379-386 for the link target of the page url
Enqueue(q, target, absolute, depth, base, seen_urls) ==
  IF /\ target # <<>>
     /\ _same_origin(base, absolute)
     /\ absolute \notin seen_urls
     /\ depth < SCAN_MAX_DEPTH
    THEN Append(q, <<absolute, depth + 1>>) ELSE q

\* lines 388-392: enqueue for each link of the page, in document order
RECURSIVE EnqueueAll(_, _, _, _, _, _)
EnqueueAll(q, links, url, depth, base, seen_urls) ==
  IF links = <<>> THEN q
  ELSE EnqueueAll(Enqueue(q, Head(links), urljoin(url, Head(links)), depth, base, seen_urls),
                  Tail(links), url, depth, base, seen_urls)

\* the loop guard without the page cap: `while q`
CrawlRunning_NoCap(st) == st.q # <<>>

\* the guard of the while loop of line 362
CrawlRunning(st) == st.q # <<>> /\ Cardinality(st.seen_urls) < SCAN_MAX_PAGES

\* lines 394-438: the check of the path pth of the visited URL
CheckPath(st, url, pth, net) ==
  IF LooksSensitive(pth)
    THEN [st EXCEPT !.out = Append(@, CrawlFinding(pth, Probe(net, url))),
                    !.requests = @ \o Probe(net, url).requests]
    ELSE st

\* lines 368-440: the URL has been marked seen; page is what its GET answered
Visit(st, url, depth, base, net, page) ==
  IF page.raised THEN st
  ELSE CheckPath([st EXCEPT !.q = EnqueueAll(@, page.links, url, depth, base, st.seen_urls)],
                 url, OrSlash(urlparse(url).path), net)

\* lines 363-440 without the test of line 364: every item taken from the queue
\* is visited
CrawlStep_Revisits(st, base, net) ==
  Visit([st EXCEPT !.q = Tail(@),
                   !.seen_urls = @ \cup {Head(st.q)[1]},
                   !.requests = Append(@, <<"GET", Head(st.q)[1]>>)],
        Head(st.q)[1], Head(st.q)[2], base, net,
        Request(net, "get", Head(st.q)[1]))

\* one iteration of the while loop of lines 362-440;
\* st = [q, seen_urls, out, requests]; net.get[url].links are the href/src
\* values of the a, script, link and img tags of the page, in document order
CrawlStep(st, base, net) ==
  IF Head(st.q)[1] \in st.seen_urls THEN [st EXCEPT !.q = Tail(@)]
  ELSE Visit([st EXCEPT !.q = Tail(@),
                        !.seen_urls = @ \cup {Head(st.q)[1]},
                        !.requests = Append(@, <<"GET", Head(st.q)[1]>>)],
             Head(st.q)[1], Head(st.q)[2], base, net,
             Request(net, "get", Head(st.q)[1]))

RECURSIVE CrawlLoop(_, _, _)
CrawlLoop(st, base, net) ==
  IF CrawlRunning(st) THEN CrawlLoop(CrawlStep(st, base, net), base, net) ELSE st

\* the state before the first iteration: lines 333-335
CrawlInit(base) ==
  [q |-> << <<base, 0>> >>, seen_urls |-> {}, out |-> <<>>, requests |-> <<>>]

\* lines 345-352
CrawlerDisabled ==
  << [ category |-> "crawler",
       title |-> <<"C","r","a","w","l","e","r"," ","d","i","s","a","b","l","e","d"," ","(","i","n","s","t","a","l","l"," ","'","b","e","a","u","t","i","f","u","l","s","o","u","p","4","'"," ","t","o"," ","e","n","a","b","l","e",")">>,
       severity |-> "low",
       evidence_json |-> [verified |-> FALSE],
       owasp_tags |-> OWASP_TAGS,
       confidence |-> "low" ] >>

\* lines 444-452
CrawlerFailed(e) ==
  << [ category |-> "crawler",
       title |-> <<"C","r","a","w","l","e","r"," ","f","a","i","l","e","d",":"," ">> \o e,
       severity |-> "low",
       evidence_json |-> [verified |-> FALSE, error |-> e],
       owasp_tags |-> OWASP_TAGS,
       confidence |-> "low" ] >>

CrawlBase(base, net, bs4_ok, client_ok) ==
  IF ~bs4_ok THEN [CrawlInit(base) EXCEPT !.out = CrawlerDisabled]
  ELSE IF ~client_ok THEN [CrawlInit(base) EXCEPT !.out = CrawlerFailed(<<"c","l","i","e","n","t"," ","e","r","r","o","r">>)]
  ELSE CrawlLoop(CrawlInit(base), base, net)

\* the run of _crawl_and_discover: bs4_ok is whether bs4 can be imported,
\* client_ok whether httpx.Client(...) could be constructed; the final crawl state
\* with out the list returned
CrawlRun(base_url, net, bs4_ok, client_ok) == CrawlBase(BaseOf(base_url), net, bs4_ok, client_ok)

_crawl_and_discover(base_url, net, bs4_ok, client_ok) ==
  CrawlRun(base_url, net, bs4_ok, client_ok).out

-----------------------------------------------------------------------------
(* The job record, the Finding table and the worker _run_nikto_scan *)

VARIABLES
  base_url,         \* Target.base_url of the one target of the table
  jobs,             \* the Job table as committed: jobs[id] is the row of job id
  findings,         \* the Finding table as committed, in insertion order
  pc,               \* where the worker thread of the job stands ("idle": not started)
  runs,             \* how many times _run_nikto_scan was entered for the job
  first_result,     \* the job row and its findings as the first run left them
  last_progress,    \* local of _run_nikto_scan
  line_counter,     \* local of _run_nikto_scan
  buffer_lines,     \* local: the lines read that begin with the advisory marker
  rc,               \* local: proc.wait(), None until the process has exited
  parsed,           \* local
  verified,         \* local
  header_findings,  \* local
  crawl_findings,   \* local
  probe,            \* a call of _verify_nikto_findings on its own: its arguments,
                    \* the state of its loop and what it returned
  crawl,            \* a call of _crawl_and_discover on its own
  audit,            \* a call of _audit_security_headers on its own
  parse,            \* a call of _parse_nikto_findings on its own
  log,              \* a job row under a sequence of calls of _update_job
  safe,             \* a call of _docker_safe_target on its own
  api               \* the job table under calls of start_job, the workers they
                    \* start and calls of latest_job_for_target

vars ==
  << base_url, jobs, findings, pc, runs, first_result, last_progress, line_counter,
     buffer_lines, rc, parsed, verified, header_findings, crawl_findings, probe,
     crawl, audit, parse, log, safe, api >>

\* what no step of the job and its worker changes
fixed == << base_url, probe, crawl, audit, parse, log, safe, api >>

locals ==
  << last_progress, line_counter, buffer_lines, rc, parsed, verified, header_findings,
     crawl_findings >>

\* the stand-in for datetime.utcnow()
Stamp == << "utcnow" >>

\* tail[-4000:]
LOG_TAIL_MAX == 4000

\* `tail[:4000]`: the first n characters instead of the last
LastN_First(s, n) == IF Len(s) <= n THEN s ELSE SubSeq(s, 1, n)

LastN(s, n) == IF Len(s) <= n THEN s ELSE SubSeq(s, Len(s) - n + 1, Len(s))

Min(a, b) == IF a <= b THEN a ELSE b

Max(a, b) == IF a >= b THEN a ELSE b

\* _update_job(db, job, status=, progress=, append_log=) on the row job: each
\* argument is None or a one-element sequence holding the value
_update_job(job, status, progress, append_log) ==
  LET j1 == IF status # None /\ job.status # status[1]
              THEN [job EXCEPT !.status = status[1]] ELSE job
      j2 == IF progress # None
              THEN [j1 EXCEPT !.progress = Max(0, Min(100, progress[1]))] ELSE j1
  IN  IF append_log # None
        THEN [j2 EXCEPT !.log_tail = LastN(@ \o append_log, LOG_TAIL_MAX)] ELSE j2

\* The log of the job is kept as the sequence of the messages the program itself
\* appends, one element each; the output lines of the scanner, which the worker
\* appends between them, are left out of it.
MSG_QUEUED == "Queued scan."

MSG_START == "Starting Nikto scan... Using image: IMAGE"

MSG_PULL_FAILED == "ERROR: Could not pull image 'IMAGE'."

MSG_NO_DOCKER == "ERROR: Docker not found or not in PATH."

MSG_FINISHED == "Scan finished with exit code rc."

MSG_EXIT_125 == "Docker failed to run the image (exit 125). Ensure 'IMAGE' exists locally"

MSG_EXITED == "Nikto exited with code rc."

MSG_UNEXPECTED == "UNEXPECTED ERROR: e"

\* STATUS_PCT_RE.search(line): \(~\s*(\d+)\s*%\s*complete, case-insensitive; the
\* digits of the leftmost match, None if the line has none
PctMatchAt(line, i) ==
  LET after == LStrip(DropFirst(line, i + 1))
      ds == TakeWhile(after, Digits)
      rest == LStrip(DropFirst(after, Len(ds)))
  IN  IF /\ i + 1 <= Len(line) /\ line[i] = "(" /\ line[i + 1] = "~"
         /\ ds # <<>>
         /\ rest # <<>> /\ Head(rest) = "%"
         /\ StartsWith(Lower(LStrip(Tail(rest))), <<"c","o","m","p","l","e","t","e">>)
        THEN ds ELSE None

STATUS_PCT_RE(line) ==
  LET hits == { i \in 1..Len(line) : PctMatchAt(line, i) # None }
  IN  IF hits = {} THEN None
      ELSE PctMatchAt(line, CHOOSE i \in hits : \A k \in hits : i <= k)

\* lines 526-531 without the comparison of line 529: every marker is written
MarkedLine_Unguarded(backend_pct, last, counter) ==
  [last_progress |-> backend_pct, line_counter |-> counter, write |-> <<backend_pct>>]

\* lines 526-531: a line with the percent marker pct
MarkedLine(backend_pct, last, counter) ==
  IF backend_pct > last
    THEN [last_progress |-> backend_pct, line_counter |-> counter, write |-> <<backend_pct>>]
    ELSE [last_progress |-> last, line_counter |-> counter, write |-> None]

\* lines 534-537 without the test of the counter: every line without a marker
\* raises the progress
PlainLine_EveryLine(last, counter) ==
  IF last < 80
    THEN [last_progress |-> Min(80, last + 1), line_counter |-> counter,
          write |-> <<Min(80, last + 1)>>]
    ELSE [last_progress |-> last, line_counter |-> counter, write |-> None]

\* lines 534-537: a line without a marker, counter being line_counter after
\* its increment
PlainLine(last, counter) ==
  IF counter % 30 = 0 /\ last < 80
    THEN [last_progress |-> Min(80, last + 1), line_counter |-> counter,
          write |-> <<Min(80, last + 1)>>]
    ELSE [last_progress |-> last, line_counter |-> counter, write |-> None]

ProgressOf(m, last, counter) ==
  IF m # None THEN MarkedLine(Min(80, Max(12, ToInt(m))), last, counter)
  ELSE PlainLine(last, counter + 1)

\* lines 524-537: the progress the line makes the worker write, None for no write;
\* [last_progress, line_counter, write]
LineProgress(line, last, counter) == ProgressOf(STATUS_PCT_RE(line), last, counter)

\* Finding(job_id=..., category=f.get("category", "nikto"), ...): lines 559-567
FindingRow(job_id, f) ==
  [ job_id |-> job_id,
    category |-> Get(f, "category", "nikto"),
    title |-> Get(f, "title", <<>>),
    severity |-> Get(f, "severity", "medium"),
    evidence_json |-> Get(f, "evidence_json", <<>>),
    owasp_tags |-> Get(f, "owasp_tags", <<>>),
    confidence |-> Get(f, "confidence", "medium") ]

FindingRows(job_id, fs) == [i \in 1..Len(fs) |-> FindingRow(job_id, fs[i])]

\* the rows of the Finding table that belong to the job
FindingsOf(job_id) == SelectSeq(findings, LAMBDA f : f.job_id = job_id)

\* the locals of a call of _run_nikto_scan before its first statement
FreshLocals ==
  /\ last_progress = 0
  /\ line_counter = 0
  /\ buffer_lines = <<>>
  /\ rc = None
  /\ parsed = <<>>
  /\ verified = <<>>
  /\ header_findings = <<>>
  /\ crawl_findings = <<>>

\* args=(job.id, target.base_url) of the worker thread: the id of the first row
JOB == 1

\* the row start_job inserts: lines 615-621
NewJob ==
  [ target_id |-> 1, type |-> "scan", status |-> "queued", progress |-> 0,
    started_at |-> None, finished_at |-> None, log_tail |-> << MSG_QUEUED >> ]

\* db.add(job); db.commit() of a changed row
Commit(row) == jobs' = [jobs EXCEPT ![JOB] = row]

\* An action of the worker takes the environment E it runs in:
\*   E.job_write      the outcomes of a commit of the job row (TRUE: committed,
\*                    FALSE: the commit raised and wrote nothing)
\*   E.finding_write  the outcomes of the commit of the Finding rows
\*   E.lines          the lines the scanner may print
\*   E.rcs            the exit codes of the scanner
\*   E.verify_nets, E.responses, E.webs   what the network answers to the
\*                    verification probe, the header audit and the crawler
\*   E.client_ok      whether httpx.Client(...) can be constructed
\*   E.bs4_ok         whether bs4 can be imported

\* POST /{target_id}: start_job
StartJob ==
  /\ pc = "idle" /\ jobs = <<>>
  /\ jobs' = Append(jobs, NewJob)
  /\ pc' = "start"
  /\ runs' = 1
  /\ UNCHANGED << fixed, findings, first_result, locals >>

\* lines 475-483
Begin(E) ==
  /\ pc = "start"
  /\ \E ok \in E.job_write :
       IF ok
         THEN /\ Commit(_update_job(
                   [jobs[JOB] EXCEPT !.started_at = IF @ = None THEN Stamp ELSE @],
                   <<"running">>, <<10>>, <<MSG_START>>))
              /\ pc' = "image"
         ELSE pc' = "handler" /\ UNCHANGED jobs
  /\ UNCHANGED << fixed, findings, runs, first_result, locals >>

\* line 486 entering _ensure_image_pulled, lines 91-98: `docker image inspect`
\* finds the image, or exits with an error (CalledProcessError), or docker
\* itself could not be run
EnsureImage(E) ==
  /\ pc = "image"
  /\ \E inspect \in {"present", "missing", "raises"} :
       CASE inspect = "present" -> pc' = "spawn"
         [] inspect = "missing" -> pc' = "pull"
         [] inspect = "raises" -> pc' = "handler"
  /\ UNCHANGED << fixed, jobs, findings, runs, first_result, locals >>

\* lines 99-101 with a pull that fails run again: the worker goes back to the
\* image check
PullImage_Retries(E) ==
  /\ pc = "pull"
  /\ \E pull \in {"pulled", "pull_failed", "raises"} :
       CASE pull = "pulled" -> pc' = "spawn"
         [] pull = "raises" -> pc' = "handler"
         [] pull = "pull_failed" -> pc' = "image"
  /\ UNCHANGED << fixed, jobs, findings, runs, first_result, locals >>

\* lines 99-101 and 486-490: `docker pull` run once; it brings the image, or
\* exits with an error and the job is failed, or docker could not be run
PullImage(E) ==
  /\ pc = "pull"
  /\ \E pull \in {"pulled", "pull_failed", "raises"} :
       CASE pull = "pulled" -> pc' = "spawn" /\ UNCHANGED jobs
         [] pull = "raises" -> pc' = "handler" /\ UNCHANGED jobs
         [] pull = "pull_failed" ->
              \E ok \in E.job_write :
                IF ok
                  THEN /\ Commit(_update_job(jobs[JOB], <<"error">>, <<100>>,
                                             <<MSG_PULL_FAILED>>))
                       /\ pc' = "done"
                  ELSE pc' = "handler" /\ UNCHANGED jobs
  /\ UNCHANGED << fixed, findings, runs, first_result, locals >>

\* lines 502-517: subprocess.Popen starts the scanner, or raises
\* FileNotFoundError, or raises something else
Spawn(E) ==
  /\ pc = "spawn"
  /\ \E popen \in {"ok", "not_found", "raises"} :
       CASE popen = "ok" ->
              /\ pc' = "read"
              /\ last_progress' = 10
              /\ line_counter' = 0
              /\ buffer_lines' = <<>>
              /\ UNCHANGED jobs
         [] popen = "raises" ->
              pc' = "handler" /\ UNCHANGED << jobs, last_progress, line_counter, buffer_lines >>
         [] popen = "not_found" ->
              /\ \E ok \in E.job_write :
                   IF ok
                     THEN /\ Commit(_update_job(jobs[JOB], <<"error">>, <<100>>,
                                                <<MSG_NO_DOCKER>>))
                          /\ pc' = "done"
                     ELSE pc' = "handler" /\ UNCHANGED jobs
              /\ UNCHANGED << last_progress, line_counter, buffer_lines >>
  /\ UNCHANGED << fixed, findings, runs, first_result, rc, parsed, verified,
                  header_findings, crawl_findings >>

\* how many lines without a percent marker, and how many advisory lines, one run
\* of the scanner prints at most
MaxLines == 31

MaxAdvisory == 2

IsAdvisory(line) == StartsWith(Strip(line), <<"+"," ">>)

\* lines 519-537: one iteration of the read loop on the line the scanner printed.
\* The line is appended to the log and committed, then the progress it brings is
\* committed; a commit that raises ends the loop in the handler of line 594.
ReadLine(E) ==
  /\ pc = "read"
  /\ \E line \in E.lines :
       LET p == LineProgress(line, last_progress, line_counter) IN
         /\ p.line_counter <= MaxLines
         /\ IsAdvisory(line) => Len(buffer_lines) < MaxAdvisory
         /\ \E log_ok \in E.job_write, progress_ok \in E.job_write :
              IF log_ok /\ (p.write = None \/ progress_ok)
                THEN /\ buffer_lines' = IF IsAdvisory(line)
                                          THEN Append(buffer_lines, line) ELSE buffer_lines
                     /\ last_progress' = p.last_progress
                     /\ line_counter' = p.line_counter
                     /\ IF p.write # None
                          THEN Commit(_update_job(jobs[JOB], None, p.write, None))
                          ELSE UNCHANGED jobs
                     /\ pc' = "read"
                ELSE /\ pc' = "handler"
                     /\ UNCHANGED << jobs, buffer_lines, last_progress, line_counter >>
  /\ UNCHANGED << fixed, findings, runs, first_result, rc, parsed, verified,
                  header_findings, crawl_findings >>

\* proc.stdout.readline raises (output that is not valid text)
ReadRaises ==
  /\ pc = "read"
  /\ pc' = "handler"
  /\ UNCHANGED << fixed, jobs, findings, runs, first_result, locals >>

\* lines 539-540 with the status of lines 579-592 written as soon as the scanner
\* has exited
ProcExit_StatusAtExit(E) ==
  /\ pc = "read"
  /\ \E code \in E.rcs :
       /\ rc' = <<code>>
       /\ Commit(_update_job(jobs[JOB],
                             << IF code \in {0, 1} THEN "complete" ELSE "error" >>,
                             None, None))
  /\ pc' = "p85"
  /\ line_counter' = 0
  /\ UNCHANGED << fixed, findings, runs, first_result, last_progress,
                  buffer_lines, parsed, verified, header_findings, crawl_findings >>

\* lines 539-540: end of output; rc = proc.wait().  line_counter is not read
\* after the loop, and the model forgets its value here.
ProcExit(E) ==
  /\ pc = "read"
  /\ \E code \in E.rcs : rc' = <<code>>
  /\ pc' = "p85"
  /\ line_counter' = 0
  /\ UNCHANGED << fixed, jobs, findings, runs, first_result, last_progress,
                  buffer_lines, parsed, verified, header_findings, crawl_findings >>

\* lines 543-545
Progress85(E) ==
  /\ pc = "p85"
  /\ IF last_progress < 85
       THEN \E ok \in E.job_write :
              IF ok
                THEN /\ last_progress' = 85
                     /\ Commit(_update_job(jobs[JOB], None, <<85>>, None))
                     /\ pc' = "parse"
                ELSE pc' = "handler" /\ UNCHANGED << jobs, last_progress >>
       ELSE pc' = "parse" /\ UNCHANGED << jobs, last_progress >>
  /\ UNCHANGED << fixed, findings, runs, first_result, line_counter, buffer_lines, rc,
                  parsed, verified, header_findings, crawl_findings >>

\* line 548
Parse ==
  /\ pc = "parse"
  /\ parsed' = _parse_nikto_findings(buffer_lines)
  /\ pc' = "verify"
  /\ UNCHANGED << fixed, jobs, findings, runs, first_result, last_progress,
                  line_counter, buffer_lines, rc, verified, header_findings,
                  crawl_findings >>

\* line 549
Verify(E) ==
  /\ pc = "verify"
  /\ \E net \in E.verify_nets, client_ok \in E.client_ok :
       verified' = _verify_nikto_findings(base_url, parsed, net, client_ok)
  /\ pc' = "p92"
  /\ UNCHANGED << fixed, jobs, findings, runs, first_result, last_progress,
                  line_counter, buffer_lines, rc, parsed, header_findings,
                  crawl_findings >>

\* the checkpoints four points higher: 96 after the verification and 100 after
\* the findings were stored
Checkpoint_Higher(E, at, floor, next) ==
  /\ pc = at
  /\ IF last_progress < floor + 4
       THEN \E ok \in E.job_write :
              IF ok
                THEN /\ last_progress' = floor + 4
                     /\ Commit(_update_job(jobs[JOB], None, <<floor + 4>>, None))
                     /\ pc' = next
                ELSE pc' = "finalize" /\ UNCHANGED << jobs, last_progress >>
       ELSE pc' = next /\ UNCHANGED << jobs, last_progress >>
  /\ UNCHANGED << fixed, findings, runs, first_result, line_counter, buffer_lines, rc,
                  parsed, verified, header_findings, crawl_findings >>

\* lines 551-553 and 570-572: a checkpoint inside the try of line 547, whose
\* except of line 574 takes the worker to the finalization
Checkpoint(E, at, floor, next) ==
  /\ pc = at
  /\ IF last_progress < floor
       THEN \E ok \in E.job_write :
              IF ok
                THEN /\ last_progress' = floor
                     /\ Commit(_update_job(jobs[JOB], None, <<floor>>, None))
                     /\ pc' = next
                ELSE pc' = "finalize" /\ UNCHANGED << jobs, last_progress >>
       ELSE pc' = next /\ UNCHANGED << jobs, last_progress >>
  /\ UNCHANGED << fixed, findings, runs, first_result, line_counter, buffer_lines, rc,
                  parsed, verified, header_findings, crawl_findings >>

Progress92(E) == Checkpoint(E, "p92", 92, "audit")

\* line 555 with a failure of the audit leaving the function as an exception,
\* which the except of line 574 catches
Audit_Propagates(E) ==
  /\ pc = "audit"
  /\ \E resp \in E.responses, client_ok \in E.client_ok :
       IF resp.raised \/ ~client_ok
         THEN pc' = "finalize" /\ UNCHANGED header_findings
         ELSE /\ header_findings' = _audit_security_headers(base_url, resp, client_ok)
              /\ pc' = "crawl"
  /\ UNCHANGED << fixed, jobs, findings, runs, first_result, last_progress,
                  line_counter, buffer_lines, rc, parsed, verified, crawl_findings >>

\* line 555
Audit(E) ==
  /\ pc = "audit"
  /\ \E resp \in E.responses, client_ok \in E.client_ok :
       header_findings' = _audit_security_headers(base_url, resp, client_ok)
  /\ pc' = "crawl"
  /\ UNCHANGED << fixed, jobs, findings, runs, first_result, last_progress,
                  line_counter, buffer_lines, rc, parsed, verified, crawl_findings >>

\* line 556
Crawl(E) ==
  /\ pc = "crawl"
  /\ \E net \in E.webs, bs4_ok \in E.bs4_ok, client_ok \in E.client_ok :
       crawl_findings' = _crawl_and_discover(base_url, net, bs4_ok, client_ok)
  /\ pc' = "persist"
  /\ UNCHANGED << fixed, jobs, findings, runs, first_result, last_progress,
                  line_counter, buffer_lines, rc, parsed, verified, header_findings >>

\* lines 558-568 with a commit after every db.add: a commit that raises leaves
\* the rows committed before it in the table
Persist_PerRow(E) ==
  /\ pc = "persist"
  /\ \E ok \in E.finding_write :
       IF ok
         THEN /\ findings' = findings
                   \o FindingRows(JOB, verified \o header_findings \o crawl_findings)
              /\ pc' = "p96"
         ELSE /\ findings' = findings
                   \o FindingRows(JOB, SubSeq(verified \o header_findings \o crawl_findings,
                                              1, 1))
              /\ pc' = "finalize"
  /\ UNCHANGED << fixed, jobs, runs, first_result, locals >>

\* lines 558-568: the rows are added to the session and committed together; a
\* commit that raises rolls them back and is caught at line 574
Persist(E) ==
  /\ pc = "persist"
  /\ \E ok \in E.finding_write :
       IF ok
         THEN /\ findings' = findings
                   \o FindingRows(JOB, verified \o header_findings \o crawl_findings)
              /\ pc' = "p96"
         ELSE pc' = "finalize" /\ UNCHANGED findings
  /\ UNCHANGED << fixed, jobs, runs, first_result, locals >>

Progress96(E) == Checkpoint(E, "p96", 96, "finalize")

\* lines 577-592 without the branch of line 581: one message for every exit code
\* other than 0 and 1
Finalize_OneMessage(E) ==
  /\ pc = "finalize"
  /\ \E ok \in E.job_write :
       IF ok
         THEN /\ Commit(
                   LET job == [jobs[JOB] EXCEPT !.finished_at = Stamp] IN
                     IF rc[1] \in {0, 1}
                       THEN _update_job(job, <<"complete">>, <<100>>, <<MSG_FINISHED>>)
                     ELSE _update_job(job, <<"error">>, <<100>>, <<MSG_EXITED>>))
              /\ pc' = "done"
         ELSE pc' = "handler" /\ UNCHANGED jobs
  /\ UNCHANGED << fixed, findings, runs, first_result, locals >>

\* lines 577-592
Finalize(E) ==
  /\ pc = "finalize"
  /\ \E ok \in E.job_write :
       IF ok
         THEN /\ Commit(
                   LET job == [jobs[JOB] EXCEPT !.finished_at = Stamp] IN
                     IF rc[1] \in {0, 1}
                       THEN _update_job(job, <<"complete">>, <<100>>, <<MSG_FINISHED>>)
                     ELSE IF rc[1] = 125
                       THEN _update_job(job, <<"error">>, <<100>>, <<MSG_EXIT_125>>)
                     ELSE _update_job(job, <<"error">>, <<100>>, <<MSG_EXITED>>))
              /\ pc' = "done"
         ELSE pc' = "handler" /\ UNCHANGED jobs
  /\ UNCHANGED << fixed, findings, runs, first_result, locals >>

\* lines 594-602 with the job put back in the queue instead of failed
Handler_Requeues(E) ==
  /\ pc = "handler"
  /\ \E ok \in E.job_write :
       IF ok
         THEN Commit(_update_job([jobs[JOB] EXCEPT !.finished_at = Stamp],
                                 <<"queued">>, <<0>>, <<MSG_UNEXPECTED>>))
         ELSE UNCHANGED jobs
  /\ pc' = "done"
  /\ UNCHANGED << fixed, findings, runs, first_result, locals >>

\* lines 594-602: the handler of an exception that left the try of line 474; an
\* exception of its own write is swallowed
Handler(E) ==
  /\ pc = "handler"
  /\ \E ok \in E.job_write :
       IF ok
         THEN Commit(_update_job([jobs[JOB] EXCEPT !.finished_at = Stamp],
                                 <<"error">>, <<100>>, <<MSG_UNEXPECTED>>))
         ELSE UNCHANGED jobs
  /\ pc' = "done"
  /\ UNCHANGED << fixed, findings, runs, first_result, locals >>

\* _run_nikto_scan(job.id, target.base_url) called once more for the same job,
\* after the first call returned
RunAgain ==
  /\ pc = "done" /\ runs = 1
  /\ runs' = 2
  /\ first_result' = [job |-> jobs[JOB], findings |-> FindingsOf(JOB)]
  /\ pc' = "start"
  /\ last_progress' = 0
  /\ line_counter' = 0
  /\ buffer_lines' = <<>>
  /\ rc' = None
  /\ parsed' = <<>>
  /\ verified' = <<>>
  /\ header_findings' = <<>>
  /\ crawl_findings' = <<>>
  /\ UNCHANGED << fixed, jobs, findings >>

-----------------------------------------------------------------------------
(* A call of _verify_nikto_findings on its own, one iteration of its loop at a
   time, the network answering each iteration as it pleases *)

\* the job, its findings and its worker, and the calls of the functions outside
\* the sub-passes: what no step of a sub-pass on its own changes
job_state == << base_url, jobs, findings, pc, runs, first_result, locals, safe, api >>

\* line 176-177: out = [], seen_verified_paths = set()
LoopStart == [out |-> <<>>, seen_verified_paths |-> {}, requests |-> <<>>]

\* the call with the findings fs: before and st are the state of the loop
\* before and after the last iteration, net what the network answered in it,
\* i the number of findings iterated over; the phase is "returned" after the
\* return of line 241 and "failed" after the one of line 239
ProbeCalled(fs) ==
  [ phase |-> "called", findings |-> fs, i |-> 0, before |-> LoopStart,
    st |-> LoopStart, net |-> [head |-> <<>>, get |-> <<>>], result |-> <<>> ]

\* no call
ProbeIdle == [ProbeCalled(<<>>) EXCEPT !.phase = "idle"]

\* lines 173-178 and 238-239: the client is constructed, or the fallback returns
VerifyEnter ==
  /\ probe.phase = "called"
  /\ \E client_ok \in BOOLEAN :
       probe' = IF client_ok
                  THEN [probe EXCEPT !.phase = "loop"]
                  ELSE [probe EXCEPT !.phase = "failed",
                                     !.result = Unverified(probe.findings)]
  /\ UNCHANGED << job_state, crawl, audit, parse, log >>

\* lines 238-239: an exception raised within the with block outside the try of
\* line 204 (the client fails as a whole) discards out; the fallback returns
VerifyRaises ==
  /\ probe.phase = "loop"
  /\ probe' = [probe EXCEPT !.phase = "failed", !.result = Unverified(probe.findings)]
  /\ UNCHANGED << job_state, crawl, audit, parse, log >>

\* lines 180-237: one iteration
VerifyIterate(nets) ==
  /\ probe.phase = "loop"
  /\ probe.i < Len(probe.findings)
  /\ \E net \in nets :
       probe' = [ probe EXCEPT
                    !.i = @ + 1,
                    !.before = probe.st,
                    !.net = net,
                    !.st = VerifyOne(probe.st, probe.findings[probe.i + 1],
                                     BaseOf(base_url), net) ]
  /\ UNCHANGED << job_state, crawl, audit, parse, log >>

\* line 241
VerifyReturn ==
  /\ probe.phase = "loop"
  /\ probe.i = Len(probe.findings)
  /\ probe' = [ probe EXCEPT !.phase = "returned",
                             !.result = OrUnverified(probe.st, probe.findings).out ]
  /\ UNCHANGED << job_state, crawl, audit, parse, log >>

-----------------------------------------------------------------------------
(* A call of _crawl_and_discover on its own, one iteration of its loop at a
   time, the network answering each iteration as it pleases *)

\* the call: before and st are the state of the loop before and after the last
\* iteration, net what the network answered in it; the phase is "returned"
\* after the return of line 442, "disabled" after the one of line 345 and
\* "failed" after the one of line 445
CrawlCalled(base) ==
  [ phase |-> "called", before |-> CrawlInit(base), st |-> CrawlInit(base),
    net |-> [head |-> <<>>, get |-> <<>>], result |-> <<>> ]

\* no call
CrawlIdle == [CrawlCalled(<<>>) EXCEPT !.phase = "idle"]

\* lines 340-360: bs4 is imported and the client constructed, or one of the
\* two fails
CrawlEnter ==
  /\ crawl.phase = "called"
  /\ \E bs4_ok \in BOOLEAN, client_ok \in BOOLEAN :
       crawl' = IF ~bs4_ok
                  THEN [crawl EXCEPT !.phase = "disabled", !.result = CrawlerDisabled]
                ELSE IF ~client_ok
                  THEN [crawl EXCEPT !.phase = "failed",
                                     !.result = CrawlerFailed(<<"c","l","i","e","n","t"," ","e","r","r","o","r">>)]
                ELSE [crawl EXCEPT !.phase = "loop"]
  /\ UNCHANGED << job_state, probe, audit, parse, log >>

\* lines 362-440: one iteration
CrawlIterate(webs) ==
  /\ crawl.phase = "loop"
  /\ CrawlRunning(crawl.st)
  /\ \E net \in webs :
       crawl' = [ crawl EXCEPT
                    !.before = crawl.st,
                    !.net = net,
                    !.st = CrawlStep(crawl.st, BaseOf(base_url), net) ]
  /\ UNCHANGED << job_state, probe, audit, parse, log >>

\* lines 444-452: an exception raised within the with block outside the inner
\* handlers
CrawlRaises ==
  /\ crawl.phase = "loop"
  /\ crawl' = [crawl EXCEPT !.phase = "failed", !.result = CrawlerFailed(<<"c","l","i","e","n","t"," ","e","r","r","o","r">>)]
  /\ UNCHANGED << job_state, probe, audit, parse, log >>

\* line 442
CrawlReturn ==
  /\ crawl.phase = "loop"
  /\ ~CrawlRunning(crawl.st)
  /\ crawl' = [crawl EXCEPT !.phase = "returned", !.result = crawl.st.out]
  /\ UNCHANGED << job_state, probe, audit, parse, log >>

-----------------------------------------------------------------------------
(* _update_job on its own, one call with log text at a time, the text kept
   character by character *)

\* the calls explored on one row
MaxAppends == 4

\* a row whose log_tail is initial, before the first call; all is every
\* character the row was given, the initial log and the appended texts in order
LogCalled(initial) ==
  [ phase |-> "called", job |-> [NewJob EXCEPT !.log_tail = initial],
    all |-> initial, text |-> <<>>, n |-> 0 ]

\* _update_job(db, job, append_log=text), the commit of lines 85-87 succeeding
LogAppend(texts) ==
  /\ log # <<>> /\ log.n < MaxAppends
  /\ \E text \in texts :
       log' = [log EXCEPT !.job = _update_job(log.job, None, None, text),
                          !.all = @ \o text,
                          !.text = text,
                          !.n = @ + 1]
  /\ UNCHANGED << job_state, probe, crawl, audit, parse >>

-----------------------------------------------------------------------------
(* _parse_nikto_findings on its own, one line of the loop at a time *)

\* the call with the list lines, before the loop: lines 121-122
ParseCalled(lines) ==
  [ phase |-> "loop", lines |-> lines, i |-> 0,
    st |-> [findings |-> <<>>, seen |-> {}], result |-> <<>> ]

\* one iteration of the loop of lines 123-141
ParseIterate ==
  /\ parse # <<>> /\ parse.phase = "loop"
  /\ parse.i < Len(parse.lines)
  /\ parse' = [parse EXCEPT !.i = @ + 1,
                            !.st = ParseLine(parse.st, parse.lines[parse.i + 1])]
  /\ UNCHANGED << job_state, probe, crawl, audit, log >>

\* line 142
ParseReturn ==
  /\ parse # <<>> /\ parse.phase = "loop"
  /\ parse.i = Len(parse.lines)
  /\ parse' = [parse EXCEPT !.phase = "returned", !.result = parse.st.findings]
  /\ UNCHANGED << job_state, probe, crawl, audit, log >>

-----------------------------------------------------------------------------
(* _classify_severity on its own *)

ClassifyCalled(title) == [ phase |-> "called", title |-> title, result |-> <<>> ]

\* the call of lines 110-118
Classify ==
  /\ parse # <<>> /\ parse.phase = "called"
  /\ parse' = [parse EXCEPT !.phase = "classified",
                            !.result = _classify_severity(parse.title)]
  /\ UNCHANGED << job_state, probe, crawl, audit, log >>

-----------------------------------------------------------------------------
(* _audit_security_headers on its own *)

\* the call, resp being what the GET of the base URL will answer
AuditCalled(resp) ==
  [ phase |-> "called", resp |-> resp, client_ok |-> TRUE, result |-> <<>>,
    requests |-> <<>> ]

\* the call of lines 245-317
AuditCall ==
  /\ audit # <<>> /\ audit.phase = "called"
  /\ \E client_ok \in BOOLEAN :
       audit' = [audit EXCEPT
                   !.phase = "returned",
                   !.client_ok = client_ok,
                   !.result = AuditRun(base_url, audit.resp, client_ok).out,
                   !.requests = AuditRun(base_url, audit.resp, client_ok).requests]
  /\ UNCHANGED << job_state, probe, crawl, parse, log >>

-----------------------------------------------------------------------------
(* _docker_safe_target on its own *)

SafeCalled(url) == [ phase |-> "called", url |-> url, result |-> <<>> ]

\* the call of line 492
SafeTarget ==
  /\ safe # <<>> /\ safe.phase = "called"
  /\ safe' = [safe EXCEPT !.phase = "returned", !.result = _docker_safe_target(safe.url)]
  /\ UNCHANGED << base_url, jobs, findings, pc, runs, first_result, locals, probe,
                  crawl, audit, parse, log, api >>

-----------------------------------------------------------------------------
(* The routes start_job, job_status and latest_job_for_target over a table of
   several jobs; the worker of a job is reduced to its first write *)

\* api is <<>> when no route is called, and otherwise the record of
\*   reqs      the calls of start_job, each with the line it stands at
\*   rows      the Job table: rows[id] is the row of job id
\*   workers   the threads started, each with the job id it was given
\*   clock     what datetime.utcnow() returns next
\*   response  the response to the GET just answered, <<>> after another step
ApiStarted ==
  [ reqs |-> <<>>, rows |-> <<>>, workers |-> <<>>, clock |-> 1, response |-> <<>> ]

\* raise HTTPException(status_code=404, ...)
NotFound == [ status_code |-> 404 ]

\* a step of start_job or of a worker
ApiStep(next) ==
  /\ api # <<>>
  /\ api' = [next EXCEPT !.response = <<>>]
  /\ UNCHANGED << base_url, jobs, findings, pc, runs, first_result, locals, probe,
                  crawl, audit, parse, log, safe >>

\* a GET answered with the response
ApiAnswer(response) ==
  /\ api # <<>>
  /\ api' = [api EXCEPT !.response = response]
  /\ UNCHANGED << base_url, jobs, findings, pc, runs, first_result, locals, probe,
                  crawl, audit, parse, log, safe >>

\* lines 611-613: start_job(target_id) looks the target up in the table Target,
\* whose ids are targets
ApiCall(targets, target_id) ==
  /\ api # <<>>
  /\ ApiStep([api EXCEPT !.reqs = Append(@,
       [ target_id |-> target_id, job_id |-> None,
         at |-> IF target_id \in targets THEN "found" ELSE "not_found" ])])

\* lines 615-624: the row is inserted and refreshed, which gives it the next id
ApiInsert(i) ==
  /\ api # <<>> /\ i \in DOMAIN api.reqs /\ api.reqs[i].at = "found"
  /\ ApiStep([api EXCEPT
       !.rows = Append(@, [NewJob EXCEPT !.target_id = api.reqs[i].target_id]),
       !.reqs[i].job_id = << Len(api.rows) + 1 >>,
       !.reqs[i].at = "inserted" ])

\* a thread for every call and one more
ApiSpawn_Twice(i) ==
  /\ api # <<>> /\ i \in DOMAIN api.reqs /\ api.reqs[i].at = "inserted"
  /\ ApiStep([api EXCEPT
       !.workers = @ \o << [ job_id |-> api.reqs[i].job_id[1], at |-> "started" ],
                           [ job_id |-> api.reqs[i].job_id[1], at |-> "started" ] >>,
       !.reqs[i].at = "spawned" ])

\* lines 626-627: threading.Thread(target=_run_nikto_scan, args=(job.id, ...)).start()
ApiSpawn(i) ==
  /\ api # <<>> /\ i \in DOMAIN api.reqs /\ api.reqs[i].at = "inserted"
  /\ ApiStep([api EXCEPT
       !.workers = Append(@, [ job_id |-> api.reqs[i].job_id[1], at |-> "started" ]),
       !.reqs[i].at = "spawned" ])

\* line 629
ApiReturn(i) ==
  /\ api # <<>> /\ i \in DOMAIN api.reqs /\ api.reqs[i].at = "spawned"
  /\ ApiStep([api EXCEPT !.reqs[i].at = "returned"])

\* lines 475-483 in the thread w: the first write of the worker
ApiWorkerBegin(w) ==
  /\ api # <<>> /\ w \in DOMAIN api.workers /\ api.workers[w].at = "started"
  /\ LET id == api.workers[w].job_id IN
       ApiStep([api EXCEPT
         !.rows[id] = _update_job(
            [api.rows[id] EXCEPT !.started_at = IF @ = None THEN << api.clock >> ELSE @],
            <<"running">>, <<10>>, <<MSG_START>>),
         !.clock = @ + 1,
         !.workers[w].at = "running" ])

\* the response of lines 636-644 and 659-667 for the row id
JobResponse(rows, id) ==
  [ id |-> id, status |-> rows[id].status, progress |-> rows[id].progress,
    target_id |-> rows[id].target_id, started_at |-> rows[id].started_at ]

\* lines 631-644: GET /{job_id}/status
job_status(rows, job_id) ==
  IF job_id \in DOMAIN rows THEN JobResponse(rows, job_id) ELSE NotFound

\* .where(Job.target_id == target_id)
JobsOf(rows, target_id) == { id \in DOMAIN rows : rows[id].target_id = target_id }

\* order_by(Job.started_at.desc().nullslast(), Job.id.desc()): row i comes
\* before row j
SortsBefore(rows, i, j) ==
  LET a == rows[i].started_at
      b == rows[j].started_at
  IN  IF a = None /\ b = None THEN i > j
      ELSE IF a = None THEN FALSE
      ELSE IF b = None THEN TRUE
      ELSE IF a[1] # b[1] THEN a[1] > b[1]
      ELSE i > j

\* lines 646-667: GET /by-target/{target_id}/latest
latest_job_for_target(rows, target_id) ==
  LET ids == JobsOf(rows, target_id) IN
    IF ids = {} THEN NotFound
    ELSE JobResponse(rows,
           CHOOSE i \in ids : \A j \in ids \ {i} : SortsBefore(rows, i, j))

ApiJobStatus(job_id) ==
  /\ api # <<>>
  /\ ApiAnswer(
       [ route |-> "status", arg |-> job_id, body |-> job_status(api.rows, job_id) ])

ApiLatest(target_id) ==
  /\ api # <<>>
  /\ ApiAnswer(
       [ route |-> "latest", arg |-> target_id,
         body |-> latest_job_for_target(api.rows, target_id) ])

-----------------------------------------------------------------------------
(* The environment of the runs explored *)

\* Target.base_url
TargetUrls == { <<"h","t","t","p","s",":","/","/","h">> }

L_NOISE == <<"-"," ","s","c","a","n","n","i","n","g","\n">>

L_PCT5 == <<"-"," ","S","T","A","T","U","S",":"," ","(","~","5","%"," ","c","o","m","p","l","e","t","e",")","\n">>

L_PCT50 == <<"-"," ","S","T","A","T","U","S",":"," ","(","~"," ","5","0"," ","%"," ","C","o","m","p","l","e","t","e",","," ","1"," ","m","i","n","u","t","e"," ","l","e","f","t",")","\n">>

L_PCT95 == <<"(","~","9","5","%"," ","c","o","m","p","l","e","t","e","\n">>

L_ZIP == <<"+"," ","/","b","a","c","k","u","p",".","z","i","p",":"," ","a","r","c","h","i","v","e","\n">>

L_ZIP2 == <<"+"," ","O","S","V","D","B","-","3","0","9","2",":"," ","/","b","a","c","k","u","p",".","z","i","p"," ","f","o","u","n","d","\n">>

ScannerLines == { L_NOISE, L_PCT5, L_PCT50, L_PCT95, L_ZIP, L_ZIP2 }

ExitCodes == { 0, 1, 2, 125 }

\* an answer of the network: no transport error, the status, a Content-Length
Answer(status) ==
  [ raised |-> FALSE, err |-> None, status |-> status, content_length |-> <<"5">>,
    links |-> <<>> ]

\* a page with the links, and the same answer to a HEAD
Page(links) == [Answer(200) EXCEPT !.links = links]

\* the URLs the verification probe asks for the advisory lines above
ProbeUrls(base) == { ProbeUrl(base, <<"/","a","d","m","i","n","/">>), ProbeUrl(base, <<"/","b","a","c","k","u","p",".","z","i","p">>) }

\* every probe URL answers a HEAD with the status, and a GET with get_status
NetAnswering(base, head_status, get_status) ==
  [ head |-> [u \in ProbeUrls(base) |-> Answer(head_status)],
    get |-> [u \in ProbeUrls(base) |-> Answer(get_status)] ]

\* nothing answers: every request is a transport error
NetDown == [head |-> <<>>, get |-> <<>>]

VerifyNets(base) ==
  { NetAnswering(base, 200, 200), NetAnswering(base, 404, 404),
    NetAnswering(base, 405, 403), NetDown }

\* an exception e whose str(e) is the message; the exceptions of the HTTP
\* client carry a message that is not empty
Raising(message) == [TransportError EXCEPT !.err = message]

\* every probe URL answers a HEAD with 405 and the GET raises
NetGetRaises(base) ==
  [ head |-> [u \in ProbeUrls(base) |-> Answer(405)],
    get |-> [u \in ProbeUrls(base) |-> Raising(<<"r","e","s","e","t">>)] ]

\* what the network answers to one iteration of the verification loop
ProbeNets(base) ==
  VerifyNets(base) \cup { NetGetRaises(base), NetAnswering(base, 501, 401) }

\* the titles of the findings handed to the verification: two of one path, one
\* without a path that the classifier rates low
ProbeTitles == { <<"/","b","a","c","k","u","p",".","z","i","p",":"," ","a","r","c","h","i","v","e">>, <<"O","S","V","D","B","-","3","0","9","2",":"," ","/","b","a","c","k","u","p",".","z","i","p"," ","f","o","u","n","d">>, <<"S","e","r","v","e","r"," ","i","n","f","o">> }

MaxFindings == 2

RECURSIVE SeqsUpTo(_, _)
SeqsUpTo(S, n) ==
  IF n = 0 THEN { <<>> }
  ELSE LET shorter == SeqsUpTo(S, n - 1)
       IN  shorter \cup { Append(q, x) : q \in shorter, x \in S }

\* the lists of findings handed to the verification, as the parser builds them
ProbeInputs == SeqsUpTo({ RawFinding(t) : t \in ProbeTitles }, MaxFindings)

SecurityHeaders ==
  << << <<"S","t","r","i","c","t","-","T","r","a","n","s","p","o","r","t","-","S","e","c","u","r","i","t","y">>, <<"m","a","x","-","a","g","e","=","1">> >>,
     << <<"X","-","C","o","n","t","e","n","t","-","T","y","p","e","-","O","p","t","i","o","n","s">>, <<"n","o","s","n","i","f","f">> >>,
     << <<"c","o","n","t","e","n","t","-","s","e","c","u","r","i","t","y","-","p","o","l","i","c","y">>, <<"d","e","f","a","u","l","t","-","s","r","c"," ","'","s","e","l","f","'">> >>,
     << <<"R","e","f","e","r","r","e","r","-","P","o","l","i","c","y">>, <<"n","o","-","r","e","f","e","r","r","e","r">> >>,
     << <<"P","E","R","M","I","S","S","I","O","N","S","-","P","O","L","I","C","Y">>, <<"g","e","o","l","o","c","a","t","i","o","n","=","(",")">> >> >>

\* the answers to the GET of the header audit
R_FAILED == [raised |-> TRUE, err |-> <<"t","i","m","e","d"," ","o","u","t">>, status |-> NoStatus, headers |-> <<>>]

R_BARE == [raised |-> FALSE, err |-> None, status |-> 200, headers |-> <<>>]

R_HARDENED ==
  [ raised |-> FALSE, err |-> None, status |-> 200,
    headers |-> SecurityHeaders
                \o << << <<"S","e","t","-","C","o","o","k","i","e">>, <<"s","i","d","=","1",";"," ","S","e","c","u","r","e",";"," ","H","t","t","p","O","n","l","y",";"," ","S","a","m","e","S","i","t","e","=","L","a","x">> >> >> ]

R_TWO_COOKIES ==
  [ raised |-> FALSE, err |-> None, status |-> 200,
    headers |-> SecurityHeaders
                \o << << <<"S","e","t","-","C","o","o","k","i","e">>, <<"s","i","d","=","1",";"," ","P","a","t","h","=","/">> >>,
                      << <<"s","e","t","-","c","o","o","k","i","e">>, <<"s","i","d","=","2",";"," ","P","a","t","h","=","/","a","p","p">> >> >> ]

AuditResponses == { R_FAILED, R_BARE, R_HARDENED, R_TWO_COOKIES }

\* the sites the crawler meets: one page without links; a page that links twice
\* to one archive with different query strings; no site at all
WebSinglePage(base) ==
  [ head |-> (base :> Answer(200)), get |-> (base :> Page(<<>>)) ]

WebQueryTwins(base) ==
  LET a == urljoin(base, <<"/","b","a","c","k","u","p",".","z","i","p","?","a","=","1">>)
      b == urljoin(base, <<"/","b","a","c","k","u","p",".","z","i","p","?","a","=","2">>)
  IN  [ head |-> (base :> Answer(200)) @@ (a :> Answer(200)) @@ (b :> Answer(200)),
        get |-> (base :> Page(<< <<"/","b","a","c","k","u","p",".","z","i","p","?","a","=","1">>, <<"/","b","a","c","k","u","p",".","z","i","p","?","a","=","2">> >>))
                @@ (a :> Page(<<>>)) @@ (b :> Page(<<>>)) ]

Webs(base) == { WebSinglePage(base), WebQueryTwins(base), NetDown }

\* the sites a crawl on its own meets.  The front page of the first links to a
\* directory, to an archive, to another scheme, to the default port written out
\* and to another host; the directory links on, relatively; a HEAD of the
\* archive is answered with the status.
SiteWide(base, head_status) ==
  LET dir == urljoin(base, <<"/","a","/">>)
      zip == urljoin(base, <<"/","b","a","c","k","u","p",".","z","i","p">>)
      port == <<"h","t","t","p","s",":","/","/","h",":","4","4","3","/","p">>
  IN  [ head |-> (zip :> Answer(head_status)),
        get |-> (base :> Page(<< <<"/","a","/">>, <<"/","b","a","c","k","u","p",".","z","i","p">>, <<"h","t","t","p",":","/","/","h","/","x">>, port,
                                 <<"/","/","o","t","h","e","r","/","q">>, <<"/","/","h",":","0","/","z">> >>))
                @@ (dir :> Page(<< <<"b">>, <<"/","b","a","c","k","u","p",".","z","i","p">> >>))
                @@ (zip :> Page(<<>>))
                @@ (port :> Page(<<>>))
                @@ (urljoin(dir, <<"b">>) :> Page(<< <<"c">> >>)) ]

\* a chain of pages, each linking to the next
SiteDeep(base) ==
  LET dir == urljoin(base, <<"/","a","/">>)
  IN  [ head |-> <<>>,
        get |-> (base :> Page(<< <<"/","a","/">> >>))
                @@ (dir :> Page(<< <<"b">> >>))
                @@ (urljoin(dir, <<"b">>) :> Page(<< <<"c">> >>)) ]

\* a front page that links to one directory three times, one of them
\* relatively; the directory links on
SiteRepeats(base) ==
  LET dir == urljoin(base, <<"/","a","/">>)
  IN  [ head |-> <<>>,
        get |-> (base :> Page(<< <<"/","a","/">>, <<"/","a","/">>, <<"a","/">> >>))
                @@ (dir :> Page(<< <<"b">> >>)) ]

\* the base URLs crawled: one with a scheme, one without
CrawlTargets == { <<"h","t","t","p","s",":","/","/","h">>, <<"h">> }

CrawlWebs(base) ==
  { SiteWide(base, 200), SiteWide(base, 404), SiteWide(base, 405), SiteDeep(base),
    SiteRepeats(base), NetDown }

\* commits of the job row succeed; the commit of the Finding rows may raise
Reliable ==
  [ job_write |-> {TRUE}, finding_write |-> BOOLEAN, lines |-> ScannerLines,
    rcs |-> ExitCodes, verify_nets |-> VerifyNets(BaseOf(base_url)),
    responses |-> AuditResponses, webs |-> Webs(BaseOf(base_url)),
    client_ok |-> BOOLEAN, bs4_ok |-> BOOLEAN ]

\* every commit may raise
Faulty == [Reliable EXCEPT !.job_write = BOOLEAN]

\* one behaviour of the target and of the database, for a scan that is run again:
\* every commit succeeds, every probe URL answers 200, the front page has no
\* security header and no link
Steady ==
  [ job_write |-> {TRUE}, finding_write |-> {TRUE}, lines |-> {L_PCT50, L_ZIP},
    rcs |-> {0, 2}, verify_nets |-> {NetAnswering(BaseOf(base_url), 200, 200)},
    responses |-> {R_BARE}, webs |-> {WebSinglePage(BaseOf(base_url))},
    client_ok |-> {TRUE}, bs4_ok |-> {TRUE} ]

-----------------------------------------------------------------------------
(* Specifications *)

Init ==
  /\ base_url \in TargetUrls
  /\ jobs = <<>>
  /\ findings = <<>>
  /\ pc = "idle"
  /\ runs = 0
  /\ first_result = [job |-> NewJob, findings |-> <<>>]
  /\ FreshLocals
  /\ probe = ProbeIdle
  /\ crawl = CrawlIdle
  /\ audit = <<>>
  /\ parse = <<>>
  /\ log = <<>>
  /\ safe = <<>>
  /\ api = <<>>

\* one job, started by start_job and run by its worker
Next ==
  \/ StartJob
  \/ Begin(Reliable)
  \/ EnsureImage(Reliable)
  \/ PullImage(Reliable)
  \/ Spawn(Reliable)
  \/ ReadLine(Reliable)
  \/ ReadRaises
  \/ ProcExit(Reliable)
  \/ Progress85(Reliable)
  \/ Parse
  \/ Verify(Reliable)
  \/ Progress92(Reliable)
  \/ Audit(Reliable)
  \/ Crawl(Reliable)
  \/ Persist(Reliable)
  \/ Progress96(Reliable)
  \/ Finalize(Reliable)
  \/ Handler(Reliable)

Spec == Init /\ [][Next]_vars

\* the same, every commit of the job row being able to raise
NextDb ==
  \/ StartJob
  \/ Begin(Faulty)
  \/ EnsureImage(Faulty)
  \/ PullImage(Faulty)
  \/ Spawn(Faulty)
  \/ ReadLine(Faulty)
  \/ ReadRaises
  \/ ProcExit(Faulty)
  \/ Progress85(Faulty)
  \/ Parse
  \/ Verify(Faulty)
  \/ Progress92(Faulty)
  \/ Audit(Faulty)
  \/ Crawl(Faulty)
  \/ Persist(Faulty)
  \/ Progress96(Faulty)
  \/ Finalize(Faulty)
  \/ Handler(Faulty)

SpecDb == Init /\ [][NextDb]_vars

\* the worker called a second time for the same job once its first call has
\* returned
NextTwice ==
  \/ StartJob
  \/ Begin(Steady)
  \/ EnsureImage(Steady)
  \/ PullImage(Steady)
  \/ Spawn(Steady)
  \/ ReadLine(Steady)
  \/ ReadRaises
  \/ ProcExit(Steady)
  \/ Progress85(Steady)
  \/ Parse
  \/ Verify(Steady)
  \/ Progress92(Steady)
  \/ Audit(Steady)
  \/ Crawl(Steady)
  \/ Persist(Steady)
  \/ Progress96(Steady)
  \/ Finalize(Steady)
  \/ Handler(Steady)
  \/ RunAgain

SpecTwice == Init /\ [][NextTwice]_vars

\* no job: the state in which a function is called on its own
NoJob ==
  /\ jobs = <<>>
  /\ findings = <<>>
  /\ pc = "idle"
  /\ runs = 0
  /\ first_result = [job |-> NewJob, findings |-> <<>>]
  /\ FreshLocals
  /\ safe = <<>>
  /\ api = <<>>

\* _verify_nikto_findings called with a list of findings
InitVerify ==
  /\ NoJob
  /\ base_url \in TargetUrls
  /\ probe \in { ProbeCalled(fs) : fs \in ProbeInputs }
  /\ crawl = CrawlIdle
  /\ audit = <<>>
  /\ parse = <<>>
  /\ log = <<>>

NextVerify ==
  \/ VerifyEnter
  \/ VerifyIterate(ProbeNets(BaseOf(base_url)))
  \/ VerifyRaises
  \/ VerifyReturn

SpecVerify == InitVerify /\ [][NextVerify]_vars

\* _crawl_and_discover called
InitCrawl ==
  /\ NoJob
  /\ base_url \in CrawlTargets
  /\ probe = ProbeIdle
  /\ crawl = CrawlCalled(BaseOf(base_url))
  /\ audit = <<>>
  /\ parse = <<>>
  /\ log = <<>>

NextCrawl ==
  \/ CrawlEnter
  \/ CrawlIterate(CrawlWebs(BaseOf(base_url)))
  \/ CrawlRaises
  \/ CrawlReturn

SpecCrawl == InitCrawl /\ [][NextCrawl]_vars

\* n characters that differ from their neighbours
Numbered(n) == [i \in 1..n |-> << "0", "1", "2", "3", "4", "5", "6", "7", "8", "9" >>[(i % 10) + 1]]

\* the texts appended: none, a line, and two runs of output that together with
\* the initial log are longer than the tail kept
LogTexts == { <<>>, <<"+"," ","/","a",":"," ","x","\n">>, Numbered(1500), Numbered(2600) }

\* log_tail of the row before the calls: None, or what start_job wrote
InitialLogs == { None, <<"Q","u","e","u","e","d"," ","s","c","a","n",".","\n">> }

InitLog ==
  /\ NoJob
  /\ base_url \in TargetUrls
  /\ probe = ProbeIdle
  /\ crawl = CrawlIdle
  /\ audit = <<>>
  /\ parse = <<>>
  /\ log \in { LogCalled(initial) : initial \in InitialLogs }

NextLog == LogAppend(LogTexts)

SpecLog == InitLog /\ [][NextLog]_vars

\* the lines given to the parser at most
MaxParseLines == 3

\* output lines: noise, boilerplate in two letter cases, one advisory in two
\* letter cases and indented, another advisory, a plus followed by a tab, an
\* empty line
ParserLines ==
  { <<"-"," ","d","o","n","e","\n">>,
    <<"+"," ","S","E","R","V","E","R",":"," ","n","\n">>,
    <<"+"," "," "," ","t","a","r","g","e","t"," ","i","p",":"," ","1","\n">>,
    <<"+"," ","/","a",":"," ","x","\n">>,
    <<" "," ","+"," ","/","A",":"," ","X"," ","\n">>,
    <<"+"," ","/","b",":"," ","y">>,
    <<"+","\t","/","c","\n">>,
    <<"\n">> }

InitParse ==
  /\ NoJob
  /\ base_url \in TargetUrls
  /\ probe = ProbeIdle
  /\ crawl = CrawlIdle
  /\ audit = <<>>
  /\ parse \in { ParseCalled(lines) : lines \in SeqsUpTo(ParserLines, MaxParseLines) }
  /\ log = <<>>

NextParse == ParseIterate \/ ParseReturn

SpecParse == InitParse /\ [][NextParse]_vars

\* the base URLs audited: https, without a scheme, https in capitals
AuditTargets == { <<"h","t","t","p","s",":","/","/","h">>, <<"h">>, <<"H","T","T","P","S",":","/","/","h">> }

\* security headers a response may carry, in the order it carries them, their
\* names in several letter cases
AuditHeaders ==
  << << <<"S","t","r","i","c","t","-","T","r","a","n","s","p","o","r","t","-","S","e","c","u","r","i","t","y">>, <<"m","a","x","-","a","g","e","=","1">> >>,
     << <<"c","o","n","t","e","n","t","-","s","e","c","u","r","i","t","y","-","p","o","l","i","c","y">>, <<"x">> >>,
     << <<"X","-","F","R","A","M","E","-","O","P","T","I","O","N","S">>, <<"D","E","N","Y">> >>,
     << <<"R","e","f","e","r","r","e","r","-","P","o","l","i","c","y">>, <<"o","r","i","g","i","n">> >>,
     << <<"P","E","R","M","I","S","S","I","O","N","S","-","P","O","L","I","C","Y">>, <<"a","=","(",")">> >>,
     << <<"f","e","a","t","u","r","e","-","p","o","l","i","c","y">>, <<"a"," ","'","n","o","n","e","'">> >> >>

\* X-Content-Type-Options: not sent, sent as nosniff, sent with another value
ContentTypeOptions ==
  { <<>>,
    << << <<"X","-","C","o","n","t","e","n","t","-","T","y","p","e","-","O","p","t","i","o","n","s">>, <<"n","o","s","n","i","f","f">> >> >>,
    << << <<"x","-","c","o","n","t","e","n","t","-","t","y","p","e","-","o","p","t","i","o","n","s">>, <<"n","o","n","e">> >> >> }

\* the responses of status 200 with any of the headers, and a request that fails
AuditedResponses ==
  { [ raised |-> FALSE, err |-> None, status |-> 200,
      headers |-> xcto \o SelectSeq(AuditHeaders, LAMBDA hd : hd \in chosen) ] :
      xcto \in ContentTypeOptions, chosen \in SUBSET { AuditHeaders[i] : i \in 1..Len(AuditHeaders) } }
  \cup { R_FAILED }

\* the Set-Cookie headers of a response at most
MaxCookies == 2

\* cookies: without a flag, with the three flags, with two flags in small
\* letters, with the word secure in the name only, with blanks around the name
AuditCookies ==
  { <<"s","i","d","=","1">>,
    <<"s","i","d","=","1",";"," ","S","e","c","u","r","e",";"," ","H","t","t","p","O","n","l","y",";"," ","S","a","m","e","S","i","t","e","=","L","a","x">>,
    <<"t","=","2",";"," ","s","e","c","u","r","e",";"," ","h","t","t","p","o","n","l","y">>,
    <<"s","e","c","u","r","e","_","i","d","=","1",";"," ","H","t","t","p","O","n","l","y",";"," ","S","a","m","e","S","i","t","e","=","L","a","x">>,
    <<" ","a"," ","=","1",";"," ","P","a","t","h","=","/">> }

\* the responses with every security header and some Set-Cookie headers
CookieResponses ==
  { [ raised |-> FALSE, err |-> None, status |-> 200,
      headers |-> SecurityHeaders
                  \o [i \in 1..Len(cks) |-> << <<"S","e","t","-","C","o","o","k","i","e">>, cks[i] >>] ] :
      cks \in SeqsUpTo(AuditCookies, MaxCookies) \ { <<>> } }

InitAudit ==
  /\ NoJob
  /\ base_url \in AuditTargets
  /\ probe = ProbeIdle
  /\ crawl = CrawlIdle
  /\ audit \in { AuditCalled(resp) : resp \in AuditedResponses \cup CookieResponses }
  /\ parse = <<>>
  /\ log = <<>>

NextAudit == AuditCall

SpecAudit == InitAudit /\ [][NextAudit]_vars

\* the harnesses of the sub-passes at rest
NoCall ==
  /\ probe = ProbeIdle
  /\ crawl = CrawlIdle
  /\ audit = <<>>
  /\ parse = <<>>
  /\ log = <<>>

\* target URLs put together from a scheme or none, a host, a port or none, a
\* path or none and a query or none
SafeSchemes == { <<>>, <<"h","t","t","p",":","/","/">>, <<"h","t","t","p","s",":","/","/">>, <<"H","T","T","P",":","/","/">> }
SafeHosts == { <<"l","o","c","a","l","h","o","s","t">>, <<"L","O","C","A","L","H","O","S","T">>, <<"1","2","7",".","0",".","0",".","1">>, <<"h">>, <<"l","o","c","a","l","h","o","s","t",".","h">> }
SafePorts == { <<>>, <<":","8","0","8","0">> }
SafePaths == { <<>>, <<"/","a","p","p">>, <<"/","a",";","p">> }
SafeQueries == { <<>>, <<"?","x","=","1">> }

SafeTargets ==
  { sc \o h \o pt \o pa \o qu :
      sc \in SafeSchemes, h \in SafeHosts, pt \in SafePorts, pa \in SafePaths,
      qu \in SafeQueries }

InitSafe ==
  /\ jobs = <<>> /\ findings = <<>> /\ pc = "idle" /\ runs = 0
  /\ first_result = [job |-> NewJob, findings |-> <<>>]
  /\ FreshLocals
  /\ NoCall
  /\ api = <<>>
  /\ base_url \in TargetUrls
  /\ safe \in { SafeCalled(url) : url \in SafeTargets }

NextSafe == SafeTarget

SpecSafe == InitSafe /\ [][NextSafe]_vars

\* the calls of start_job at most
MaxRequests == 2

\* the rows of the table Target
TargetIds == { 1, 2 }

\* the target ids the routes are called with: those of the table and another
RequestedTargets == TargetIds \cup { 3 }

InitApi ==
  /\ jobs = <<>> /\ findings = <<>> /\ pc = "idle" /\ runs = 0
  /\ first_result = [job |-> NewJob, findings |-> <<>>]
  /\ FreshLocals
  /\ NoCall
  /\ safe = <<>>
  /\ base_url \in TargetUrls
  /\ api = ApiStarted

NextApi ==
  \/ \E t \in RequestedTargets :
       api # <<>> /\ Len(api.reqs) < MaxRequests /\ ApiCall(TargetIds, t)
  \/ \E i \in 1..MaxRequests : ApiInsert(i)
  \/ \E i \in 1..MaxRequests : ApiSpawn(i)
  \/ \E i \in 1..MaxRequests : ApiReturn(i)
  \/ \E w \in 1..MaxRequests : ApiWorkerBegin(w)
  \/ \E id \in 1..(MaxRequests + 1) : ApiJobStatus(id)
  \/ \E t \in RequestedTargets : ApiLatest(t)

SpecApi == InitApi /\ [][NextApi]_vars

\* the words of a title at most
MaxWords == 2

\* the keywords of the three tiers, some of them in other letter cases or inside
\* a longer word, and a word of no tier
TitleWords ==
  HIGH_KEYWORDS \cup MEDIUM_KEYWORDS
  \cup { <<"h","e","a","d","e","r">>, <<"i","n","f","o">>, <<"X","S","S">>, <<"I","n","s","e","c","u","r","e">>, <<"H","E","A","D","E","R">>, <<"I","n","f","o">>,
         <<"r","e","s","o","u","r","c","e">>, <<"/","a">> }

\* the words of ws with a blank between them
RECURSIVE Spaced(_)
Spaced(ws) ==
  IF ws = <<>> THEN <<>>
  ELSE IF Len(ws) = 1 THEN ws[1]
  ELSE ws[1] \o << " " >> \o Spaced(Tail(ws))

ClassifierTitles == { Spaced(ws) : ws \in SeqsUpTo(TitleWords, MaxWords) }

InitClassify ==
  /\ NoJob
  /\ base_url \in TargetUrls
  /\ probe = ProbeIdle
  /\ crawl = CrawlIdle
  /\ audit = <<>>
  /\ parse \in { ClassifyCalled(title) : title \in ClassifierTitles }
  /\ log = <<>>

NextClassify == Classify

SpecClassify == InitClassify /\ [][NextClassify]_vars

-----------------------------------------------------------------------------
(* Properties of the job and its worker *)

Terminal == {"complete", "error"}

\* the worker has returned
Returned == pc = "done"

\* C1: when _run_nikto_scan returns, the persisted status of the job is complete
\* or error, never queued or running, on every path, an exception of a
\* persistence write included.
C1_TerminalOnReturn == Returned => jobs[JOB].status \in Terminal

\* C2: within one run of a freshly created job every persisted progress value
\* is at least the one persisted before it, and lies within 0..100, whatever
\* lines the scanner prints and on every exit path.
C2_ProgressNeverDecreases ==
  [][ /\ jobs' # <<>> => jobs'[JOB].progress \in 0..100
      /\ jobs # <<>> => jobs'[JOB].progress >= jobs[JOB].progress ]_vars

\* a marker of 50 percent was written, and thirty lines without a marker later
\* the trickle of line 536 wrote 51
C2_Witness == pc = "read" /\ jobs[JOB].progress = 51 /\ line_counter = 30

\* C3: once the scanner has exited with the code rc, the status the job ends
\* with is complete if and only if rc is 0 or 1, and error otherwise, also when
\* a stage after the exit fails.
C3_StatusFollowsExitCode ==
  (Returned /\ rc # None) =>
    /\ jobs[JOB].status = "complete" <=> rc[1] \in {0, 1}
    /\ jobs[JOB].status = "error" <=> rc[1] \notin {0, 1}

Rank(status) ==
  CASE status = "queued" -> 0
    [] status = "running" -> 1
    [] status \in Terminal -> 2

\* C4: the status moves forward only, along queued, running, then complete or
\* error: no step takes it back, none leaves complete or error.
C4_StatusMovesForward ==
  [][ jobs # <<>> =>
        /\ jobs'[JOB].status \in {"queued", "running"} \cup Terminal
        /\ Rank(jobs'[JOB].status) >= Rank(jobs[JOB].status)
        /\ jobs[JOB].status \in Terminal => jobs'[JOB].status = jobs[JOB].status ]_vars

\* the job went from queued to running to error, the scanner having exited
\* with 125
C4_Witness == Returned /\ rc = <<125>> /\ jobs[JOB].status = "error"

\* C5: no Finding row of the job is inserted or changed once the status of the
\* job is persisted as complete or error.
C5_FindingsFinalBeforeTerminal ==
  [][ (jobs # <<>> /\ jobs[JOB].status \in Terminal) => findings' = findings ]_vars

\* a job that ended with rows of all three origins
C5_Witness ==
  /\ Returned /\ jobs[JOB].status = "complete"
  /\ verified # <<>> /\ header_findings # <<>> /\ crawl_findings # <<>>
  /\ FindingsOf(JOB) = FindingRows(JOB, verified \o header_findings \o crawl_findings)

\* C6: a job whose status is complete or error has its finished_at set, also
\* when it ended because the image could not be had or docker is missing.
C6_FinishedAtSet ==
  (jobs # <<>> /\ jobs[JOB].status \in Terminal) => jobs[JOB].finished_at # None

\* C7: a second call of _run_nikto_scan for the same job, after the first has
\* returned, never takes the status of the job away from the one the first call
\* left, and when it returns the status, the progress and the Finding rows of
\* the job are what they were after the first call.
C7_SecondCallChangesNothing ==
  runs = 2 =>
    /\ jobs[JOB].status = first_result.job.status
    /\ Returned =>
         /\ jobs[JOB].progress = first_result.job.progress
         /\ FindingsOf(JOB) = first_result.findings

\* the verified state of a row
VerifiedOf(row) == Get(row.evidence_json, "verified", FALSE)

\* C8: no two Finding rows of one run of a job have the same category, the same
\* lowercased title and the same verified state.
C8_NoDuplicateFindings ==
  \A i, j \in 1..Len(FindingsOf(JOB)) :
    i < j =>
      LET a == FindingsOf(JOB)[i]
          b == FindingsOf(JOB)[j]
      IN  ~ ( /\ a.category = b.category
              /\ Lower(a.title) = Lower(b.title)
              /\ VerifiedOf(a) = VerifiedOf(b) )

-----------------------------------------------------------------------------
(* Properties of _verify_nikto_findings *)

\* the loop has made an iteration; what follows describes the last one
Iterated == probe.phase = "loop" /\ probe.i > 0

ItFinding == probe.findings[probe.i]

ItPath == _extract_path_from_title(ItFinding.title)

ItUrl == ProbeUrl(BaseOf(base_url), ItPath)

\* what the network answers to a HEAD and to a GET of the URL
ItHead == Request(probe.net, "head", ItUrl)

ItGet == Request(probe.net, "get", ItUrl)

\* the requests made, and whether an entry was added to the output
ItRequests ==
  SubSeq(probe.st.requests, Len(probe.before.requests) + 1, Len(probe.st.requests))

ItEntered == Len(probe.st.out) = Len(probe.before.out) + 1

ItEntry == probe.st.out[Len(probe.st.out)]

PathOf(f) == f.evidence_json.path

\* the path had a verified finding in the output before the iteration
ItPathVerifiedBefore ==
  \E k \in 1..Len(probe.before.out) :
    VerifiedOf(probe.before.out[k]) /\ PathOf(probe.before.out[k]) = ItPath

\* C9 as stated: once a path has a verified finding in the output, every later
\* finding of the same path is dropped, so that no finding of the output
\* follows a verified one of its path.
C9_LaterFindingsOfPathDropped ==
  /\ (Iterated /\ ItPath # None /\ ItPathVerifiedBefore) => probe.st.out = probe.before.out
  /\ \A i, j \in 1..Len(probe.st.out) :
       (i < j /\ VerifiedOf(probe.st.out[i])) =>
         PathOf(probe.st.out[j]) # PathOf(probe.st.out[i])

GetMade == ~ItHead.raised /\ ItHead.status \in {405, 501}

ItVerifies ==
  /\ ~ItHead.raised
  /\ IF GetMade THEN ~ItGet.raised /\ ItGet.status \in {200, 401, 403}
                 ELSE ItHead.status \in {200, 401, 403}

\* C9: once a path has a verified finding in the output, a later finding of
\* the same path is dropped if and only if its own probe verifies it, and is
\* entered as unverified otherwise; the output holds at most one verified
\* finding of a path.
C9_VerifiedFindingsOfPathDropped ==
  /\ (Iterated /\ ItPath # None /\ ItPathVerifiedBefore) =>
       IF ItVerifies THEN probe.st.out = probe.before.out
       ELSE /\ probe.st.out = Append(probe.before.out, ItEntry)
            /\ ~VerifiedOf(ItEntry) /\ PathOf(ItEntry) = ItPath
  /\ \A i, j \in 1..Len(probe.st.out) :
       (i < j /\ VerifiedOf(probe.st.out[i]) /\ VerifiedOf(probe.st.out[j])) =>
         PathOf(probe.st.out[j]) # PathOf(probe.st.out[i])

\* the second of two findings of one path with different titles was verified
\* and dropped
C9_Witness ==
  /\ Iterated /\ probe.i = 2
  /\ probe.findings[1].title # probe.findings[2].title
  /\ ItPath # None /\ ItPathVerifiedBefore /\ ItVerifies
  /\ Len(probe.st.out) = 1

ItFinalStatus ==
  IF ItHead.raised THEN NoStatus
  ELSE IF GetMade /\ ~ItGet.raised THEN ItGet.status
  ELSE ItHead.status

SensitivePath(path) ==
  /\ path # None
  /\ \/ path \in ALWAYS_SENSITIVE_PATHS
     \/ \E ext \in SUSPECT_EXTS : EndsWith(Lower(path), ext)

\* _verify_nikto_findings has returned
VerifyReturned == probe.phase \in {"returned", "failed"}

\* C11: every finding _verify_nikto_findings returns whose extracted path is
\* sensitive has the severity high, and every other finding it returns has the
\* severity it came in with.
C11_SensitivePathsHigh ==
  VerifyReturned =>
    \A k \in 1..Len(probe.result) :
      LET e == probe.result[k] IN
        IF SensitivePath(_extract_path_from_title(e.title))
          THEN e.severity = "high"
          ELSE \E i \in 1..Len(probe.findings) :
                 /\ probe.findings[i].title = e.title
                 /\ probe.findings[i].severity = e.severity

\* C12: when the client fails as a whole, _verify_nikto_findings returns one
\* entry for each finding it was given, in the order given, each the finding
\* itself with verified false in its evidence.
C12_FallbackReturnsAllUnverified ==
  probe.phase = "failed" =>
    /\ Len(probe.result) = Len(probe.findings)
    /\ \A i \in 1..Len(probe.findings) :
         /\ ~VerifiedOf(probe.result[i])
         /\ "verified" \in DOMAIN probe.result[i].evidence_json
         /\ \A k \in DOMAIN probe.findings[i] \ {"evidence_json"} :
              probe.result[i][k] = probe.findings[i][k]

\* the client failed after the loop had verified the first of two findings
C12_Witness ==
  /\ probe.phase = "failed" /\ probe.i = 1 /\ Len(probe.findings) = 2
  /\ Len(probe.st.out) = 1 /\ VerifiedOf(probe.st.out[1])
  /\ Len(probe.result) = 2

-----------------------------------------------------------------------------
(* Properties of _crawl_and_discover *)

\* the URLs waiting in the queue q
Queued(q) == { q[i][1] : i \in 1..Len(q) }

\* an iteration of the crawl loop has run: before and st are the states around it
CrawlIterated == crawl.phase \in {"loop", "returned", "failed"} /\ crawl.st # crawl.before

\* the item the iteration took from the queue
CrUrl == Head(crawl.before.q)[1]
CrDepth == Head(crawl.before.q)[2]

\* what the GET of the page answered in the iteration
CrPage == Request(crawl.net, "get", CrUrl)

\* the items the iteration appended to the queue
CrEnqueued == SubSeq(crawl.st.q, Len(crawl.before.q), Len(crawl.st.q))

\* C13: the crawler never has more than SCAN_MAX_PAGES distinct pages visited,
\* never has an item deeper than SCAN_MAX_DEPTH in its queue, and once the
\* page cap is reached the queue is left as it is.
C13_CrawlWithinCaps ==
  [][ /\ Cardinality(crawl'.st.seen_urls) <= SCAN_MAX_PAGES
      /\ \A i \in 1..Len(crawl'.st.q) : crawl'.st.q[i][2] <= SCAN_MAX_DEPTH
      /\ Cardinality(crawl.st.seen_urls) >= SCAN_MAX_PAGES =>
           /\ crawl'.st.q = crawl.st.q
           /\ crawl'.st.seen_urls = crawl.st.seen_urls ]_vars

\* the crawl returned at the page cap with items left in the queue, one of them
\* at the depth cap
C13_Witness ==
  /\ crawl.phase = "returned"
  /\ Cardinality(crawl.st.seen_urls) = SCAN_MAX_PAGES
  /\ \E i \in 1..Len(crawl.st.q) : crawl.st.q[i][2] = SCAN_MAX_DEPTH

\* the port the URL states, or the default of its scheme when it states none
StatedPort(p) ==
  IF AfterFirst(p.netloc, {":"}) # <<>> THEN ToInt(AfterFirst(p.netloc, {":"}))
  ELSE IF p.scheme = <<"h","t","t","p","s">> THEN 443 ELSE 80

OriginOf(u) == << urlparse(u).scheme, Hostname(urlparse(u)), StatedPort(urlparse(u)) >>

\* C14: every URL in the queue and every URL requested as a page has the
\* scheme, the hostname and the effective port of the base URL, and every item
\* an iteration appends is a link of the page resolved against the URL of
\* that page.
C14_CrawlStaysOnOrigin ==
  /\ \A u \in Queued(crawl.st.q) \cup crawl.st.seen_urls :
       OriginOf(u) = OriginOf(BaseOf(base_url))
  /\ CrawlIterated =>
       \A i \in 1..Len(CrEnqueued) :
         /\ ~CrPage.raised
         /\ \E k \in 1..Len(CrPage.links) :
              CrEnqueued[i] = << urljoin(CrUrl, CrPage.links[k]), CrDepth + 1 >>

\* C15: when the crawl returns its list, the list has a finding for the path of
\* every visited URL whose path looks sensitive.
C15_SensitiveVisitsReported ==
  crawl.phase = "returned" =>
    \A u \in crawl.st.seen_urls :
      LooksSensitive(OrSlash(urlparse(u).path)) =>
        \E k \in 1..Len(crawl.result) :
          crawl.result[k].evidence_json.path = OrSlash(urlparse(u).path)

\* the positions in the list of requests at which a page was asked for: a GET
\* that is not the GET of the check of a path, which follows the HEAD of its URL
PageGets(requests) ==
  { i \in 1..Len(requests) :
      /\ requests[i][1] = "GET"
      /\ ~(i > 1 /\ requests[i - 1] = << "HEAD", requests[i][2] >>) }

\* C31: within one crawl no URL is asked for as a page twice, the URLs asked
\* for as pages are the URLs counted for the page cap, and there are at most
\* SCAN_MAX_PAGES of them; an iteration that takes a URL already asked for
\* from the queue makes no request and changes nothing but the queue; an
\* iteration whose page fetch fails has made that one request, counts the URL
\* and does nothing else.
C31_PagesFetchedOnce ==
  /\ \A i, j \in PageGets(crawl.st.requests) :
       crawl.st.requests[i][2] = crawl.st.requests[j][2] => i = j
  /\ { crawl.st.requests[i][2] : i \in PageGets(crawl.st.requests) } = crawl.st.seen_urls
  /\ Cardinality(PageGets(crawl.st.requests)) <= SCAN_MAX_PAGES
  /\ CrawlIterated =>
       IF CrUrl \in crawl.before.seen_urls
         THEN crawl.st = [crawl.before EXCEPT !.q = Tail(@)]
       ELSE /\ crawl.st.seen_urls = crawl.before.seen_urls \cup {CrUrl}
            /\ Len(crawl.st.requests) > Len(crawl.before.requests)
            /\ crawl.st.requests[Len(crawl.before.requests) + 1] = << "GET", CrUrl >>
            /\ CrPage.raised =>
                 crawl.st = [crawl.before EXCEPT
                               !.q = Tail(@),
                               !.seen_urls = @ \cup {CrUrl},
                               !.requests = Append(@, << "GET", CrUrl >>)]

\* the front page linked to a directory three times; the fetch of the directory
\* failed, as the page it links to was never queued; the two other items of the
\* directory were taken from the queue without a request, and the crawl returned
C31_Witness ==
  /\ crawl.phase = "returned"
  /\ CrUrl \in crawl.before.seen_urls
  /\ CrUrl # BaseOf(base_url)
  /\ crawl.st.seen_urls = { BaseOf(base_url), CrUrl }
  /\ crawl.st.q = <<>>
  /\ crawl.st.requests = << << "GET", BaseOf(base_url) >>, << "GET", CrUrl >> >>

-----------------------------------------------------------------------------
(* Properties of the sub-passes within the worker *)

\* the list is one finding of the category, low, unverified, and its title ends
\* with the error text its evidence carries, when it carries one
OneLowFinding(fs, category, prefix) ==
  /\ Len(fs) = 1
  /\ fs[1].category = category
  /\ fs[1].severity = "low"
  /\ ~fs[1].evidence_json.verified
  /\ "error" \in DOMAIN fs[1].evidence_json =>
       fs[1].title = prefix \o fs[1].evidence_json.error

\* the error text of a failed audit or crawl
FailureText(r, client_ok) == IF client_ok THEN r.err ELSE <<"c","l","i","e","n","t"," ","e","r","r","o","r">>

\* C16: a sub-pass that fails still returns to the worker, which goes on to the
\* next sub-pass and to the finalization; a failed header audit returns one low
\* unverified finding with the error text, a failed or disabled crawl one low
\* unverified crawler finding.
C16_SubPassFailuresContained ==
  [][ /\ pc = "verify" => pc' = "p92"
      /\ pc = "p92" => pc' = "audit"
      /\ pc = "audit" =>
           /\ pc' = "crawl"
           /\ \A r \in AuditResponses, c \in BOOLEAN :
                /\ r.raised \/ ~c
                /\ header_findings' = _audit_security_headers(base_url, r, c)
                => /\ OneLowFinding(header_findings', "headers", <<"H","e","a","d","e","r"," ","a","u","d","i","t"," ","f","a","i","l","e","d",":"," ">>)
                   /\ header_findings'[1].evidence_json.error = FailureText(r, c)
      /\ pc = "crawl" =>
           /\ pc' = "persist"
           /\ \A net \in Webs(BaseOf(base_url)), b \in BOOLEAN, c \in BOOLEAN :
                /\ ~b \/ ~c
                /\ crawl_findings' = _crawl_and_discover(base_url, net, b, c)
                => OneLowFinding(crawl_findings', "crawler", <<"C","r","a","w","l","e","r"," ","f","a","i","l","e","d",":"," ">>)
      /\ pc \in {"persist", "p96"} => pc' \in {"p96", "finalize"}
      /\ pc = "finalize" => pc' = "done" /\ jobs'[JOB].status \in Terminal ]_vars

\* the three sub-passes failed, their findings were stored, and the job was
\* finalized as complete
C16_Witness ==
  /\ pc = "done" /\ jobs[JOB].status = "complete"
  /\ verified # <<>> /\ \A i \in 1..Len(verified) : ~verified[i].evidence_json.verified
  /\ OneLowFinding(header_findings, "headers", <<"H","e","a","d","e","r"," ","a","u","d","i","t"," ","f","a","i","l","e","d",":"," ">>)
  /\ OneLowFinding(crawl_findings, "crawler", <<"C","r","a","w","l","e","r"," ","f","a","i","l","e","d",":"," ">>)
  /\ "error" \in DOMAIN crawl_findings[1].evidence_json
  /\ FindingsOf(JOB) = FindingRows(JOB, verified \o header_findings \o crawl_findings)

-----------------------------------------------------------------------------
(* Properties of _update_job *)

\* C17: after every call log_tail has at most LOG_TAIL_MAX characters and is the
\* end of everything the row was given: the initial log followed by the appended
\* texts in order, cut to its last LOG_TAIL_MAX characters.
C17_LogTailIsLastChars ==
  log.phase = "called" =>
    LET tail == log.job.log_tail
        all == log.all
    IN  /\ Len(tail) <= LOG_TAIL_MAX
        /\ Len(tail) = Min(Len(all), LOG_TAIL_MAX)
        /\ \A i \in 1..Len(tail) : tail[i] = all[Len(all) - Len(tail) + i]

\* the last call appended a text that pushed characters out of a full tail
C17_Witness ==
  /\ log.phase = "called" /\ log.n >= 3 /\ log.text # <<>>
  /\ Len(log.all) - Len(log.text) > LOG_TAIL_MAX
  /\ Len(log.job.log_tail) = LOG_TAIL_MAX

-----------------------------------------------------------------------------
(* Properties of _parse_nikto_findings *)

\* the line, whitespace around it aside, begins with the advisory marker
BeginsWithMarker(raw) == StartsWith(Strip(raw), <<"+"," ">>)

\* the line without the marker and the whitespace around it
MarkerStripped(raw) == Strip(DropFirst(Strip(raw), 2))

Advisory(raw) == BeginsWithMarker(raw) /\ ~F_IGNORE(raw)

\* the positions of the lines whose title the parser is to return: advisory
\* lines with no advisory line of the same lowercased title before them
KeptLines(lines) ==
  SelectSeq([i \in 1..Len(lines) |-> i],
            LAMBDA i : /\ Advisory(lines[i])
                       /\ \A j \in 1..(i - 1) :
                            Advisory(lines[j]) =>
                              Lower(MarkerStripped(lines[j])) # Lower(MarkerStripped(lines[i])))

\* C18: _parse_nikto_findings returns, in the order of the input, the
\* marker-stripped titles of the lines that begin with the advisory marker and
\* do not match the boilerplate pattern, whatever the letter case, the first
\* only of titles equal after lowercasing; each finding is of category nikto,
\* confidence medium, with one OWASP tag.
C18_ParserKeepsAdvisoryTitles ==
  parse.phase = "returned" =>
    /\ Len(parse.result) = Len(KeptLines(parse.lines))
    /\ \A k \in 1..Len(parse.result) :
         /\ parse.result[k].title = MarkerStripped(parse.lines[KeptLines(parse.lines)[k]])
         /\ parse.result[k].category = "nikto"
         /\ parse.result[k].confidence = "medium"
         /\ Len(parse.result[k].owasp_tags) = 1
         /\ \A p \in F_IGNORE_PREFIXES : ~StartsWith(Lower(parse.result[k].title), p)

\* boilerplate in capitals went first, then the same advisory twice in two
\* letter cases: one finding came back
C18_Witness ==
  /\ parse.phase = "returned"
  /\ parse.lines = << <<"+"," ","S","E","R","V","E","R",":"," ","n","\n">>, <<"+"," ","/","a",":"," ","x","\n">>, <<" "," ","+"," ","/","A",":"," ","X"," ","\n">> >>
  /\ Len(parse.result) = 1
  /\ parse.result[1].title = <<"/","a",":"," ","x">>

-----------------------------------------------------------------------------
(* Properties of _classify_severity *)

\* the title, letter case aside, contains one of the keywords
HasKeyword(title, keywords) == \E k \in keywords : Contains(Lower(title), k)

LOW_KEYWORDS == { <<"h","e","a","d","e","r">>, <<"i","n","f","o">> }

\* C19: _classify_severity answers for every title; a title with a high keyword
\* is high whatever else it contains, else one with a medium keyword is medium
\* whatever else it contains, else one with header or info is low, else the
\* title is medium; letter case plays no part.
C19_TiersInOrder ==
  parse.phase = "classified" =>
    /\ parse.result \in {"high", "medium", "low"}
    /\ HasKeyword(parse.title, HIGH_KEYWORDS) => parse.result = "high"
    /\ /\ ~HasKeyword(parse.title, HIGH_KEYWORDS)
       /\ HasKeyword(parse.title, MEDIUM_KEYWORDS)
       => parse.result = "medium"
    /\ /\ ~HasKeyword(parse.title, HIGH_KEYWORDS \cup MEDIUM_KEYWORDS)
       /\ HasKeyword(parse.title, LOW_KEYWORDS)
       => parse.result = "low"
    /\ ~HasKeyword(parse.title, HIGH_KEYWORDS \cup MEDIUM_KEYWORDS \cup LOW_KEYWORDS)
       => parse.result = "medium"

\* a medium keyword and a low keyword, both in capitals: medium
C19_Witness ==
  /\ parse.phase = "classified"
  /\ parse.title = <<"H","E","A","D","E","R"," ","I","n","s","e","c","u","r","e">>
  /\ parse.result = "medium"

-----------------------------------------------------------------------------
(* Properties of _audit_security_headers *)

\* the audit returned from a GET that was answered
AuditAnswered == audit.phase = "returned" /\ audit.client_ok /\ ~audit.resp.raised

\* the response carries a header of the name, letter case aside
Sent(name) ==
  \E i \in 1..Len(audit.resp.headers) : Lower(audit.resp.headers[i][1]) = name

\* the response carries the header of the name with the value, letter case aside
SentWith(name, value) ==
  \E i \in 1..Len(audit.resp.headers) :
    /\ Lower(audit.resp.headers[i][1]) = name
    /\ Lower(Strip(audit.resp.headers[i][2])) = value

AuditedOverHttps == urlparse(BaseOf(base_url)).scheme = <<"h","t","t","p","s">>

\* the findings of the result with the title
Titled(title) == SelectSeq(audit.result, LAMBDA f : f.title = title)

\* the result has one finding of the title and the severity, verified, when the
\* item is absent, and none of the title when it is present
ItemReported(absent, title, severity) ==
  IF absent
    THEN /\ Len(Titled(title)) = 1
         /\ Titled(title)[1].severity = severity
         /\ Titled(title)[1].category = "headers"
         /\ Titled(title)[1].evidence_json.verified
    ELSE Titled(title) = <<>>

\* the four items that are judged by the name of the header alone
NamedItemsReported ==
  /\ ItemReported(AuditedOverHttps /\ ~Sent(<<"s","t","r","i","c","t","-","t","r","a","n","s","p","o","r","t","-","s","e","c","u","r","i","t","y">>),
                  <<"M","i","s","s","i","n","g"," ","S","t","r","i","c","t","-","T","r","a","n","s","p","o","r","t","-","S","e","c","u","r","i","t","y"," ","(","H","S","T","S",")"," ","h","e","a","d","e","r">>, "medium")
  /\ ItemReported(~Sent(<<"c","o","n","t","e","n","t","-","s","e","c","u","r","i","t","y","-","p","o","l","i","c","y">>) /\ ~Sent(<<"x","-","f","r","a","m","e","-","o","p","t","i","o","n","s">>),
                  <<"M","i","s","s","i","n","g"," ","C","S","P"," ","a","n","d"," ","X","-","F","r","a","m","e","-","O","p","t","i","o","n","s"," ","(","c","l","i","c","k","j","a","c","k","i","n","g"," ","e","x","p","o","s","u","r","e",")">>, "medium")
  /\ ItemReported(~Sent(<<"r","e","f","e","r","r","e","r","-","p","o","l","i","c","y">>),
                  <<"M","i","s","s","i","n","g"," ","R","e","f","e","r","r","e","r","-","P","o","l","i","c","y"," ","h","e","a","d","e","r">>, "low")
  /\ ItemReported(~Sent(<<"p","e","r","m","i","s","s","i","o","n","s","-","p","o","l","i","c","y">>) /\ ~Sent(<<"f","e","a","t","u","r","e","-","p","o","l","i","c","y">>),
                  <<"M","i","s","s","i","n","g"," ","P","e","r","m","i","s","s","i","o","n","s","-","P","o","l","i","c","y"," ","h","e","a","d","e","r">>, "low")

\* C20: for an answered GET the audit made that one request, to the base URL,
\* and its result has one verified finding for each absent item, of severity
\* medium for HSTS (over https only) and for CSP-or-X-Frame-Options, low for
\* X-Content-Type-Options: nosniff, Referrer-Policy and
\* Permissions-Policy-or-Feature-Policy, and none for an item that is present;
\* the names of the headers are compared letter case aside.
C20_OneFindingPerAbsentItem ==
  AuditAnswered =>
    /\ audit.requests = << << "GET", BaseOf(base_url) >> >>
    /\ NamedItemsReported
    /\ ItemReported(~SentWith(<<"x","-","c","o","n","t","e","n","t","-","t","y","p","e","-","o","p","t","i","o","n","s">>, <<"n","o","s","n","i","f","f">>),
                    <<"M","i","s","s","i","n","g"," ","X","-","C","o","n","t","e","n","t","-","T","y","p","e","-","O","p","t","i","o","n","s",":"," ","n","o","s","n","i","f","f">>, "low")

\* the names of the attributes the cookie carries after its name=value pair,
\* in small letters
CookieAttributes(raw_ck) ==
  { Lower(Strip(TakeUntil(Split(raw_ck, ";")[i], {"="}))) :
      i \in 2..Len(Split(raw_ck, ";")) }

\* the flags the cookie lacks, Secure counted over https only
LackedFlags(raw_ck) ==
  (IF AuditedOverHttps /\ <<"s","e","c","u","r","e">> \notin CookieAttributes(raw_ck)
     THEN << <<"S","e","c","u","r","e">> >> ELSE <<>>)
  \o (IF <<"h","t","t","p","o","n","l","y">> \notin CookieAttributes(raw_ck) THEN << <<"H","t","t","p","O","n","l","y">> >> ELSE <<>>)
  \o (IF <<"s","a","m","e","s","i","t","e">> \notin CookieAttributes(raw_ck) THEN << <<"S","a","m","e","S","i","t","e">> >> ELSE <<>>)

\* the Set-Cookie values of the response that lack a flag, in order
LackingCookies ==
  SelectSeq(SetCookies(audit.resp.headers), LAMBDA raw_ck : LackedFlags(raw_ck) # <<>>)

\* the findings of the result about cookies
CookieResult == SelectSeq(audit.result, LAMBDA f : f.category = "cookies")

\* C21: for an answered GET the result has one cookie finding for each
\* Set-Cookie header that lacks Secure (over https only), HttpOnly or SameSite,
\* and none for the others; the finding names the cookie, lists the lacked flags
\* and no other, and is medium when Secure is among them, else low.
C21_OneFindingPerLackingCookie ==
  AuditAnswered =>
    /\ Len(CookieResult) = Len(LackingCookies)
    /\ \A k \in 1..Len(CookieResult) :
         LET f == CookieResult[k]
             lacked == LackedFlags(LackingCookies[k])
         IN  /\ f.evidence_json.cookie = LackingCookies[k]
             /\ f.title = <<"C","o","o","k","i","e"," ","'">> \o Strip(TakeUntil(LackingCookies[k], {"="}))
                          \o <<"'"," ","m","i","s","s","i","n","g"," ","f","l","a","g","s",":"," ">> \o JoinComma(lacked)
             /\ f.severity = IF <<"S","e","c","u","r","e">> \in { lacked[i] : i \in 1..Len(lacked) }
                               THEN "medium" ELSE "low"

-----------------------------------------------------------------------------
(* Properties of _docker_safe_target *)

\* the URL without its scheme and the two slashes, when it has them
AfterScheme(url) ==
  IF Contains(url, <<":","/","/">>)
    THEN DropFirst(url, Len(TakeUntil(url, {":"})) + 3) ELSE url

\* the parts of a URL as it is written: scheme in small letters, host and port,
\* and what follows them up to the fragment
WrittenScheme(url) == IF Contains(url, <<":","/","/">>) THEN Lower(TakeUntil(url, {":"})) ELSE <<>>
WrittenAuthority(url) == TakeUntil(AfterScheme(url), {"/", "?", "#"})
WrittenHost(url) == Lower(TakeUntil(WrittenAuthority(url), {":"}))
WrittenPort(url) == AfterFirst(WrittenAuthority(url), {":"})
WrittenPathQuery(url) ==
  TakeUntil(DropFirst(AfterScheme(url), Len(WrittenAuthority(url))), {"#"})

\* C22: _docker_safe_target returns a URL whose host is localhost or 127.0.0.1,
\* the URL localhost:8080/app?x=1 among them, with the host alias in the place
\* of the host and the scheme, the port, the path and the query it had, and
\* returns every other URL as it came.
C22_LoopbackRewritten ==
  safe.phase = "returned" =>
    IF WrittenHost(safe.url) \in LOOPBACK_HOSTS
      THEN /\ WrittenHost(safe.result) = DOCKER_HOST
           /\ WrittenScheme(safe.result) = WrittenScheme(safe.url)
           /\ WrittenPort(safe.result) = WrittenPort(safe.url)
           /\ WrittenPathQuery(safe.result) = WrittenPathQuery(safe.url)
      ELSE safe.result = safe.url

-----------------------------------------------------------------------------
(* Properties of the image check *)

\* the log of the job has the message
Logged(msg) == \E i \in 1..Len(jobs[JOB].log_tail) : jobs[JOB].log_tail[i] = msg

\* C23: the image is pulled only after the presence check of the run has
\* failed, and after a pull there is no further check or pull in the run; when
\* the pull fails the worker returns with the job in error, the scanner never
\* spawned and no finding stored.
C23_OnePullThenError ==
  [][ /\ pc' = "pull" => pc = "image"
      /\ pc' = "image" => pc = "start"
      /\ pc = "pull" => pc' \in {"spawn", "done", "handler"}
      /\ pc = "handler" => pc' = "done"
      /\ pc \in {"pull", "handler"} /\ pc' = "done" =>
           /\ jobs'[JOB].status = "error"
           /\ jobs'[JOB].progress = 100
      /\ pc = "done" => pc' = "done"
      /\ jobs # <<>> /\ Logged(MSG_PULL_FAILED) =>
           /\ pc = "done" /\ jobs[JOB].status = "error"
           /\ FindingsOf(JOB) = <<>>
           /\ rc = None /\ buffer_lines = <<>> /\ last_progress = 0 ]_vars

\* the presence check failed, the pull failed, and the worker returned
C23_Witness ==
  /\ pc = "done" /\ jobs[JOB].status = "error" /\ Logged(MSG_PULL_FAILED)
  /\ FindingsOf(JOB) = <<>>

-----------------------------------------------------------------------------
(* Properties of the finalization *)

\* C24: when the worker returns after the scanner exited with 125, the job is
\* in error and its log has the message that names the image, which is not the
\* message of the other exit codes; after another exit code than 0, 1 and 125
\* the log has that other message and not the one of 125.
C24_Exit125Message ==
  /\ MSG_EXIT_125 # MSG_EXITED
  /\ (Returned /\ rc = <<125>>) =>
       /\ jobs[JOB].status = "error"
       /\ Logged(MSG_EXIT_125)
       /\ ~Logged(MSG_EXITED)
  /\ (Returned /\ rc # None /\ rc[1] \notin {0, 1, 125}) =>
       /\ Logged(MSG_EXITED)
       /\ ~Logged(MSG_EXIT_125)

\* the scanner exited with 125 after printing an advisory line, and the worker
\* returned
C24_Witness ==
  /\ Returned /\ rc = <<125>> /\ buffer_lines # <<>>
  /\ jobs[JOB].log_tail[Len(jobs[JOB].log_tail)] = MSG_EXIT_125

-----------------------------------------------------------------------------
(* Properties of the routes *)

\* the calls of start_job that have inserted their row
Inserted == { i \in DOMAIN api.reqs : api.reqs[i].at \in {"inserted", "spawned", "returned"} }

\* the threads started with the job id
WorkersOf(id) == { w \in DOMAIN api.workers : api.workers[w].job_id = id }

\* C25: whatever the interleaving of the calls of start_job, of the workers and
\* of the polls, every call that found its target has a row of its own in the
\* table, there is exactly one thread for the job of a call once the call has
\* started it and none before, no two threads have the same job id, and a call
\* that has started its thread can return whatever the worker has done.
C25_OneJobOneWorkerPerCall ==
  api # <<>> =>
    /\ Len(api.rows) = Cardinality(Inserted)
    /\ \A i \in Inserted :
         /\ api.reqs[i].job_id # None
         /\ api.reqs[i].job_id[1] \in DOMAIN api.rows
         /\ api.rows[api.reqs[i].job_id[1]].target_id = api.reqs[i].target_id
         /\ \A j \in Inserted : api.reqs[j].job_id = api.reqs[i].job_id => j = i
         /\ Cardinality(WorkersOf(api.reqs[i].job_id[1])) =
              IF api.reqs[i].at = "inserted" THEN 0 ELSE 1
    /\ \A i \in DOMAIN api.reqs \ Inserted : api.reqs[i].job_id = None
    /\ \A v, w \in DOMAIN api.workers :
         api.workers[v].job_id = api.workers[w].job_id => v = w
    /\ \A i \in DOMAIN api.reqs : api.reqs[i].at = "spawned" => ENABLED ApiReturn(i)

\* two calls have returned, each with a job of its own; the worker of the one
\* runs and the worker of the other has not begun; the job was polled
C25_Witness ==
  /\ api # <<>> /\ Len(api.reqs) = 2
  /\ \A i \in DOMAIN api.reqs : api.reqs[i].at = "returned"
  /\ api.reqs[1].job_id # api.reqs[2].job_id
  /\ \E id \in DOMAIN api.rows : api.rows[id].status = "queued"
  /\ \E id \in DOMAIN api.rows : api.rows[id].status = "running"
  /\ api.response # <<>> /\ api.response.route = "status"

\* the job of the target that was created last
NewestOf(rows, target_id) ==
  CHOOSE id \in JobsOf(rows, target_id) : \A j \in JobsOf(rows, target_id) : j <= id

\* C29: a call of latest_job_for_target for the target T answers with the job J
\* when start_job has returned J for T and no job of T was created after J,
\* also while J is still queued and older jobs of T exist.
C29_LatestIsNewest ==
  [][ \A i \in DOMAIN api.reqs :
        /\ api.reqs[i].at = "returned"
        /\ api.reqs[i].job_id[1] = NewestOf(api.rows, api.reqs[i].target_id)
        /\ api'.response # <<>>
        /\ api'.response.route = "latest"
        /\ api'.response.arg = api.reqs[i].target_id
        => api'.response.body.id = api.reqs[i].job_id[1] ]_vars

\* the same for a call made when no older job of the target has begun after J
\* was created or before J began: then the answer is J
C29_LatestOfStarted ==
  [][ \A i \in DOMAIN api.reqs :
        /\ api.reqs[i].at = "returned"
        /\ api.reqs[i].job_id[1] = NewestOf(api.rows, api.reqs[i].target_id)
        /\ api'.response # <<>>
        /\ api'.response.route = "latest"
        /\ api'.response.arg = api.reqs[i].target_id
        /\ LET J == api.reqs[i].job_id[1]
               older == JobsOf(api.rows, api.reqs[i].target_id) \ {J}
           IN  \/ \A o \in older : api.rows[o].started_at = None
               \/ /\ api.rows[J].started_at # None
                  /\ \A o \in older :
                       api.rows[o].started_at # None =>
                         api.rows[o].started_at[1] < api.rows[J].started_at[1]
        => api'.response.body.id = api.reqs[i].job_id[1] ]_vars

-----------------------------------------------------------------------------
(* Properties of the order of the stages *)

\* subprocess.Popen has returned the process: line 517 sets last_progress to 10
Spawned == last_progress >= 10

\* the step writes a terminal status to a job that had none
TerminalWritten ==
  /\ jobs # <<>>
  /\ jobs[JOB].status \notin Terminal
  /\ jobs'[JOB].status \in Terminal

\* every stage begins in the step in which the one before it returned
StagesInOrder ==
  /\ pc' = "p85" => pc \in {"read", "p85"}
  /\ pc' = "parse" => pc \in {"p85", "parse"}
  /\ pc' = "verify" => pc \in {"parse", "verify"}
  /\ pc' = "p92" => pc \in {"verify", "p92"}
  /\ pc' = "audit" => pc \in {"p92", "audit"}
  /\ pc' = "crawl" => pc \in {"audit", "crawl"}
  /\ pc' = "persist" => pc \in {"crawl", "persist"}

\* C26: in a run in which the scanner was spawned the stages follow each other
\* in the order process, parse, verification, header audit, crawl, and a
\* terminal status is written by the finalization only, which begins only
\* after the crawl, and with it the audit before it, has returned.
C26_TerminalAfterAuditAndCrawl ==
  [][ /\ StagesInOrder
      /\ pc' = "finalize" => pc \in {"persist", "p96", "finalize"}
      /\ (Spawned /\ TerminalWritten) => pc = "finalize" ]_vars

\* the same with the handler of line 594 set apart: the stages are in order, the
\* finalization begins after the crawl only, and a terminal status is written
\* by the finalization or by the handler
C26_TerminalByFinalizeOrHandler ==
  [][ /\ StagesInOrder
      /\ pc' = "finalize" => pc \in {"persist", "p96", "finalize"}
      /\ (Spawned /\ TerminalWritten) => pc \in {"finalize", "handler"} ]_vars

-----------------------------------------------------------------------------
(* Properties of the progress while the output is read *)

\* clamp(p, 12, 80)
Clamp(p) == IF p < 12 THEN 12 ELSE IF p > 80 THEN 80 ELSE p

\* the progress that is persisted after a line was read: m is the percent
\* marker of the line or None, written the value persisted before the line and
\* counter the number of lines without a marker read before it
ProgressAfter(m, written, counter) ==
  IF m # None
    THEN IF Clamp(ToInt(m)) > written THEN Clamp(ToInt(m)) ELSE written
  ELSE IF (counter + 1) % 30 = 0 /\ written < 80 THEN written + 1
  ELSE written

\* the percent markers of the lines the scanner prints
Markers == { STATUS_PCT_RE(line) : line \in ScannerLines }

\* C27: while the output is read the persisted progress is the last value
\* written and lies within 10..80; the write a line brings about is
\* clamp(p, 12, 80) for a marker p exactly when that exceeds the last value
\* written, the last value plus one for every 30th line without a marker when
\* that value is below 80, and none otherwise; an iteration of the loop
\* changes the progress as one of the lines does, and the exit of the process
\* does not change it.
C27_ReadLoopProgress ==
  [][ pc = "read" =>
        /\ jobs[JOB].progress = last_progress
        /\ jobs[JOB].progress \in 10..80
        /\ \A m \in Markers :
             LET r == ProgressOf(m, last_progress, line_counter)
                 after == ProgressAfter(m, jobs[JOB].progress, line_counter)
             IN  /\ r.write = IF after # jobs[JOB].progress THEN << after >> ELSE None
                 /\ r.last_progress = after
                 /\ r.line_counter = IF m # None THEN line_counter ELSE line_counter + 1
        /\ pc' = "read" =>
             \E m \in Markers :
               /\ jobs'[JOB].progress = ProgressAfter(m, jobs[JOB].progress, line_counter)
               /\ line_counter' = IF m # None THEN line_counter ELSE line_counter + 1
        /\ pc' = "p85" => jobs'[JOB].progress = jobs[JOB].progress ]_vars

\* a marker of 95 percent was written as 80, and the thirtieth line without a
\* marker after it left the progress at 80
C27_Witness ==
  pc = "read" /\ jobs[JOB].progress = 80 /\ last_progress = 80 /\ line_counter = 30

-----------------------------------------------------------------------------
(* Properties of the progress after the exit of the scanner *)

\* C28: once the scanner has exited, a write of the progress raises it, and
\* writes 85 at the checkpoint after the exit, 92 at the checkpoint that follows
\* the return of the verification, 96 at the checkpoint that follows the commit
\* of the findings, with the findings of the run in the table, or 100 together
\* with a terminal status; the worker leaves each checkpoint for the next stage
\* with the value of the checkpoint persisted; and wherever the progress is 100
\* the status is complete or error.
C28_CheckpointsThenHundred ==
  [][ /\ jobs # <<>> /\ jobs[JOB].progress = 100 => jobs[JOB].status \in Terminal
      /\ (rc # None /\ jobs'[JOB].progress # jobs[JOB].progress) =>
           /\ jobs'[JOB].progress > jobs[JOB].progress
           /\ jobs'[JOB].progress \in {85, 92, 96, 100}
           /\ jobs'[JOB].progress = 85 => pc = "p85"
           /\ jobs'[JOB].progress = 92 => pc = "p92"
           /\ jobs'[JOB].progress = 96 =>
                /\ pc = "p96"
                /\ FindingsOf(JOB) =
                     FindingRows(JOB, verified \o header_findings \o crawl_findings)
           /\ jobs'[JOB].progress = 100 =>
                jobs[JOB].status \notin Terminal /\ jobs'[JOB].status \in Terminal
      /\ pc' = "p92" => pc = "verify"
      /\ pc' = "p96" => pc = "persist"
      /\ pc' = "parse" => jobs'[JOB].progress = 85
      /\ pc' = "audit" => jobs'[JOB].progress = 92
      /\ (pc = "p96" /\ pc' = "finalize") => jobs'[JOB].progress = 96
      /\ pc' = "done" => jobs'[JOB].progress = 100 ]_vars

\* the findings of the run are in the table and 96 was written after 92 and
\* 85; the finalization has not yet written 100
C28_Witness ==
  /\ pc = "finalize" /\ rc # None
  /\ jobs[JOB].progress = 96 /\ jobs[JOB].status = "running"
  /\ FindingsOf(JOB) # <<>>

-----------------------------------------------------------------------------
(* Properties of the findings of a run whose scanner failed *)

\* the rows of what the passes of the run returned
RowsOfRun == FindingRows(JOB, verified \o header_findings \o crawl_findings)

\* the scanner has exited with another code than 0 and 1, and the step marks
\* the job as failed
MarkedErrorAfterExit ==
  /\ rc # None /\ rc[1] \notin {0, 1}
  /\ TerminalWritten

\* the table holds none of the findings of the job or all of them, and they
\* enter it in one step
NoneOrAll ==
  /\ FindingsOf(JOB) \in { <<>>, RowsOfRun }
  /\ findings' # findings => FindingsOf(JOB) = <<>> /\ findings' = findings \o RowsOfRun

=============================================================================
